---- MODULE Spec2Model ----
(***************************************************************************)
(* Model of the mqt interaction engine (src/src/app.rs) and of the tree    *)
(* materializer (src/src/ui/treeview.rs), and of the main loop of App::run  *)
(* with the event-source thread (src/src/event.rs).                        *)
(*                                                                         *)
(* Option<T> values are sequences: None is <<>>, Some(x) is <<x>>.         *)
(* Indices keep the 0-based values of the Rust code; TLA+ sequences are    *)
(* 1-based, so element i of a Vec v is v[i + 1].                           *)
(* A String is the sequence of its UTF-8 bytes, so len(), insert() and     *)
(* remove() count and address bytes exactly as the Rust code does.         *)
(***************************************************************************)
EXTENDS Integers, Sequences, FiniteSets, TLC

VARIABLES
    content,            \* App.content: the loaded document (immutable)
    query,              \* App.query
    results,            \* App.results
    selected_idx,       \* App.selected_idx
    should_quit,        \* App.should_quit
    error_msg,          \* App.error_msg
    mode,               \* App.mode
    show_detail,        \* App.show_detail
    query_history,      \* App.query_history
    history_position,   \* App.history_position
    cursor_position,    \* App.cursor_position
    tree_view,          \* App.tree_view
    last_eval,          \* what exec_query did in the latest step: "none" when it did not run,
                        \* else "all" (empty query), "ok", "query_error" or "parse_error"
    pc,                 \* "new" after App::new, "running" once run() has evaluated, "panicked" after an abort,
                        \* "returned" once run() has returned
    event,              \* the event passed to the latest handle_event call
    terminal_input,     \* the event waiting in the terminal's input stream, if any
    queue,              \* the events in the mpsc channel of EventHandler
    source,             \* the event-source thread: "idle" before it is spawned, "polling",
                        \* "terminated" after its break, "panicked" after a failed poll
    frame,              \* where the loop of run() is: "draw" (at its head), "poll", "none" outside it
    drawn,              \* the draws done since the loop last polled the queue
    run_result,         \* what run() returned: "none" while it has not, "ok", or the error
    terminal,           \* "cooked", or "raw" between setup_terminal and restore_terminal
    read_log,           \* the events the thread has read and sent while the receiver lived, in order
    dispatch_log        \* the events the loop of run() has passed to handle_event, in order

\* the state of the main loop and of the event-source thread
loop_vars == <<terminal_input, queue, source, frame, drawn, run_result, terminal,
               read_log, dispatch_log>>

\* the record of what went into and came out of the channel
log_vars == <<read_log, dispatch_log>>

vars == <<content, query, results, selected_idx, should_quit, error_msg, mode,
          show_detail, query_history, history_position, cursor_position,
          tree_view, last_eval, pc, event, terminal_input, queue, source, frame,
          drawn, run_result, terminal, read_log, dispatch_log>>

----------------------------------------------------------------------------
\* Bounds of the model

\* longest query text (in bytes) the model types
MaxQueryLen == 2
\* longest history the model commits
MaxHistory == 1

----------------------------------------------------------------------------
\* Option<T>

None == <<>>
Some(x) == <<x>>
IsSome(o) == o /= <<>>
Unwrap(o) == o[1]

Min(a, b) == IF a < b THEN a ELSE b
Max(a, b) == IF a > b THEN a ELSE b

----------------------------------------------------------------------------
\* Strings as UTF-8 byte sequences (std String)

\* the characters the model's keyboard can produce, with their UTF-8 encoding
Utf8(c) ==
    CASE c = "q" -> <<113>>
      [] c = ":" -> <<58>>
      [] c = "?" -> <<63>>
      [] c = "t" -> <<116>>
      [] c = "j" -> <<106>>
      [] c = "k" -> <<107>>
      [] c = "d" -> <<100>>
      [] c = "y" -> <<121>>
      [] c = "l" -> <<108>>
      [] c = " " -> <<32>>
      [] c = "x" -> <<120>>
      [] c = "." -> <<46>>
      [] c = "h" -> <<104>>
      [] c = "é" -> <<195, 169>>

\* a UTF-8 continuation byte (10xxxxxx)
IsContinuation(b) == b >= 128 /\ b < 192

\* width in bytes of the character that starts with lead byte b
CharWidth(b) ==
    IF b < 128 THEN 1
    ELSE IF b < 224 THEN 2
    ELSE IF b < 240 THEN 3
    ELSE 4

\* str::is_char_boundary
IsCharBoundary(s, i) ==
    \/ i = 0
    \/ i = Len(s)
    \/ i < Len(s) /\ ~IsContinuation(s[i + 1])

\* String::insert(idx, ch) panics unless idx is a char boundary
InsertPanics(s, i) == ~IsCharBoundary(s, i)
StringInsert(s, i, c) == SubSeq(s, 1, i) \o Utf8(c) \o SubSeq(s, i + 1, Len(s))

\* String::remove(idx) panics at the end of the string and off a char boundary
RemovePanics(s, i) == i >= Len(s) \/ ~IsCharBoundary(s, i)
StringRemove(s, i) ==
    SubSeq(s, 1, i) \o SubSeq(s, i + 1 + CharWidth(s[i + 1]), Len(s))

----------------------------------------------------------------------------
\* Documents (mq_markdown::Node) and the external parser

TextNode(t) == [kind |-> "Text", text |-> t, values |-> <<>>]
HeadingNode(t, vs) == [kind |-> "Heading", text |-> t, values |-> vs]
ListNode(vs) == [kind |-> "List", text |-> "", values |-> vs]
BlockquoteNode(vs) == [kind |-> "Blockquote", text |-> "", values |-> vs]
StrongNode(vs) == [kind |-> "Strong", text |-> "", values |-> vs]
CodeNode(t) == [kind |-> "Code", text |-> t, values |-> <<>>]

\* length of the long flat document (more than one page of results)
LongLen == 12

FlatNodes(n) == [i \in 1..n |-> TextNode("p" \o ToString(i))]

NestedNodes ==
    << HeadingNode("h1", <<TextNode("title")>>),
       BlockquoteNode(<< StrongNode(<<TextNode("s")>>), TextNode("b") >>),
       TextNode("tail"),
       ListNode(<<>>) >>

\* the document of create_test_app in tests.rs: two headings, a paragraph
\* and a list of two items, which the parser gives as one node per item
HeadingsNodes ==
    << HeadingNode("Test Heading", <<TextNode("Test Heading")>>),
       TextNode("This is a paragraph."),
       HeadingNode("Second Heading", <<TextNode("Second Heading")>>),
       ListNode(<<TextNode("List item 1")>>),
       ListNode(<<TextNode("List item 2")>>) >>

\* Markdown::from_markdown_str(content): Ok(nodes) or Err
Parse(c) ==
    CASE c = "empty"  -> [ok |-> TRUE, nodes |-> <<>>]
      [] c = "bad"    -> [ok |-> FALSE, nodes |-> <<>>]
      [] c = "small"  -> [ok |-> TRUE,
                          nodes |-> << CodeNode("rust"), TextNode("para") >>]
      [] c = "nested" -> [ok |-> TRUE, nodes |-> NestedNodes]
      [] c = "headings" -> [ok |-> TRUE, nodes |-> HeadingsNodes]
      [] c = "one"    -> [ok |-> TRUE, nodes |-> FlatNodes(1)]
      [] c = "long"   -> [ok |-> TRUE, nodes |-> FlatNodes(LongLen)]

----------------------------------------------------------------------------
\* The external query engine (mq_lang::Engine::eval)

MarkdownValue(n) == [tag |-> "Markdown", node |-> n, str |-> ""]
StringValue(s) == [tag |-> "String", node |-> TextNode(""), str |-> s]

\* mq_lang::RuntimeValue::from(node)
RuntimeValueFrom(n) == MarkdownValue(n)

MapSeq(f(_), s) == [i \in 1..Len(s) |-> f(s[i])]

\* the outcomes the engine can produce for some query over md_nodes:
\* an error, or a sequence of runtime values
EngineOutcomes(md_nodes) ==
    { [ok |-> FALSE, values |-> <<>>] } \cup
    { [ok |-> TRUE, values |-> vs] : vs \in
        { <<>>,
          md_nodes,
          SubSeq(md_nodes, 1, Min(1, Len(md_nodes))),
          <<StringValue("s")>> } }

\* the value the engine gives for an input the query selects nothing from
NoneValue == [tag |-> "None", node |-> TextNode(""), str |-> ""]

\* the query ".h", the heading selector
HeadingQuery == Utf8(".") \o Utf8("h")

\* the heading selector on one input value: the heading itself, or no value
SelectHeading(v) ==
    IF v.tag = "Markdown" /\ v.node.kind = "Heading" THEN v ELSE NoneValue

\* an engine that leaves out the inputs the selector does not match
EngineEval_Filtering(q, md_nodes) ==
    IF q = HeadingQuery
    THEN { [ok |-> TRUE,
            values |-> SelectSeq(md_nodes, LAMBDA v : v.node.kind = "Heading")] }
    ELSE EngineOutcomes(md_nodes)

\* engine.eval(&self.query, md_nodes): the query is evaluated on each input
\* in turn and gives one value per input, so the heading selector gives as
\* many values as the document has nodes (five results in
\* test_query_execution); any other query is left open
EngineEval(q, md_nodes) ==
    IF q = HeadingQuery
    THEN { [ok |-> TRUE, values |-> MapSeq(SelectHeading, md_nodes)] }
    ELSE EngineOutcomes(md_nodes)

\* the closure mapped over the engine's values in exec_query
ResultNode(runtime_value) ==
    IF runtime_value.tag = "Markdown"
    THEN runtime_value.node
    ELSE TextNode(runtime_value.str)

\* exec_query without the final bounds reset
ClampSelected_Missing(sel, r) == sel

\* "Reset selected index if it's now out of bounds" at the end of exec_query
ClampSelected(sel, r) ==
    IF sel >= Len(r)
    THEN (IF r = <<>> THEN 0 ELSE Len(r) - 1)
    ELSE sel

\* every outcome of exec_query writes results and error_msg and clamps selected_idx
ExecFinish(r, e, outcome) ==
    /\ results' = r
    /\ error_msg' = e
    /\ last_eval' = outcome
    /\ selected_idx' = ClampSelected(selected_idx, r)

\* a failing query that blanks the results
ResultsOnQueryError_Cleared(previous) == <<>>

\* the Err arm of engine.eval assigns nothing to self.results ("Keep previous results")
ResultsOnQueryError(previous) == previous

\* an empty query that leaves the results of the last query in place
ResultsOnEmptyQuery_KeepsPrevious(nodes, previous) == previous

\* "Show all nodes when query is empty": self.results = markdown.nodes
ResultsOnEmptyQuery(nodes, previous) == nodes

\* a parse failure that is not reported
ErrorOnParseFailure_Silent == None

\* the Err arm of Markdown::from_markdown_str: self.error_msg = Some("Markdown parse error: ...")
ErrorOnParseFailure == Some("Markdown parse error")

\* App::exec_query, run on the query text q
exec_query(q) ==
    LET markdown_result == Parse(content) IN
    IF markdown_result.ok
    THEN IF q /= <<>>
         THEN \E out \in EngineEval(q, MapSeq(RuntimeValueFrom, markdown_result.nodes)) :
                 IF out.ok
                 THEN ExecFinish(MapSeq(ResultNode, out.values), None, "ok")
                 ELSE ExecFinish(ResultsOnQueryError(results), Some("Query error"), "query_error")
         ELSE ExecFinish(ResultsOnEmptyQuery(markdown_result.nodes, results), None, "all")
    ELSE ExecFinish(<<>>, ErrorOnParseFailure, "parse_error")

----------------------------------------------------------------------------
\* Terminal events (crossterm::event::Event)

KeyEv(code, ch, mods) == [kind |-> "Key", code |-> code, ch |-> ch, mods |-> mods]
CharEv(ch, mods) == KeyEv("Char", ch, mods)
ResizeEv == [kind |-> "Resize", code |-> "", ch |-> "", mods |-> "NONE"]
NoEvent == [kind |-> "", code |-> "", ch |-> "", mods |-> "NONE"]

IsChar(e, c) == e.code = "Char" /\ e.ch = c

Plain(code) == KeyEv(code, "", "NONE")

\* the keys of Normal mode in the full interaction model: one key for every
\* arm that leaves Normal mode or quits, the vi navigation keys, the copy and
\* clear-query keys, and a key no arm matches (plain 'l')
NormalEvents ==
    { CharEv(c, "NONE") : c \in {"q", ":", "?", "t", "j", "k", "y", "l"} } \cup
    { CharEv("l", "CONTROL") } \cup
    { Plain(k) : k \in {"Esc", "F1"} } \cup
    { ResizeEv }

\* the keys of Normal mode that stay in Normal mode: every such arm of the
\* match with each of its alternatives, and keys no arm matches (plain 'l',
\* Ctrl+Shift+'l', 'x', Tab)
NavigationEvents ==
    { CharEv(c, "NONE") : c \in {"q", "d", "j", "k", "y", "l", "x"} } \cup
    { CharEv("l", m) : m \in {"CONTROL", "CONTROL|SHIFT"} } \cup
    { Plain(k) : k \in {"Esc", "Down", "Up", "PageDown", "PageUp",
                        "Home", "End", "Tab"} } \cup
    { ResizeEv }

\* the keys of Query mode: a narrow and a wide character to type, every
\* editing key, and keys no arm matches (Ctrl+'q', Alt+'q')
QueryEvents ==
    { CharEv(c, "NONE") : c \in {"q", "é"} } \cup
    { CharEv("q", m) : m \in {"SHIFT", "CONTROL", "ALT"} } \cup
    { Plain(k) : k \in {"Esc", "Enter", "Backspace", "Delete", "Left", "Right",
                        "Home", "End", "Up", "Down"} } \cup
    { ResizeEv }

\* the keys of Help mode: any key leaves it
HelpEvents ==
    { CharEv("x", "NONE"), Plain("Esc"), ResizeEv }

\* the keys of TreeView mode: one key for every arm of the match, and a key
\* no arm matches
TreeViewEvents ==
    { CharEv(c, "NONE") : c \in {"t", "q", "j", "k", " ", "?", "x"} } \cup
    { Plain("Esc"), ResizeEv }

----------------------------------------------------------------------------
\* Tree materializer (src/src/ui/treeview.rs)

ContainerKinds == {"Heading", "List", "Blockquote", "Strong", "Emphasis", "Link",
                   "Delete", "Fragment", "Footnote", "TableRow", "TableCell",
                   "MdxJsxFlowElement", "MdxJsxTextElement"}

\* every node counted as having children
has_children_Always(node) == TRUE

\* TreeItem::has_children
has_children(node) == node.kind \in ContainerKinds /\ node.values /= <<>>

\* TreeItem::get_children
get_children(node) == IF node.kind \in ContainerKinds THEN node.values ELSE <<>>

\* TreeItem::new
TreeItem(node, depth, index) ==
    [node |-> node, depth |-> depth, is_expanded |-> FALSE,
     has_children |-> has_children(node), index |-> index]

\* HashMap<usize, bool>::get(k).unwrap_or(d)
\* a lookup that never finds a stored entry
MapGetOr_Default(m, k, d) == d

\* HashMap<usize, bool>::get(&k).unwrap_or(&d)
MapGetOr(m, k, d) == IF k \in DOMAIN m THEN m[k] ELSE d
\* an insert that forgets the other entries
MapInsert_Replace(m, k, v) == [x \in {k} |-> v]

\* HashMap<usize, bool>::insert(k, v)
MapInsert(m, k, v) == [x \in DOMAIN m \cup {k} |-> IF x = k THEN v ELSE m[x]]
EmptyMap == [x \in {} |-> FALSE]

RECURSIVE add_node_recursive(_, _, _, _)
RECURSIVE add_nodes(_, _, _, _)

\* a walk that descends into the children of collapsed nodes too
add_node_recursive_Eager(acc, node, depth, expanded_items) ==
    LET tree_item == TreeItem(node, depth, acc.index)
        is_expanded == MapGetOr(expanded_items, acc.index, tree_item.is_expanded)
        item == [tree_item EXCEPT !.is_expanded = is_expanded]
        pushed == [items |-> Append(acc.items, item), index |-> acc.index + 1]
    IN  IF get_children(node) /= <<>>
        THEN add_nodes(pushed, get_children(node), depth + 1, expanded_items)
        ELSE pushed

\* TreeView::add_node_recursive; acc carries self.items and the index counter
add_node_recursive(acc, node, depth, expanded_items) ==
    LET current_index == acc.index
        tree_item == TreeItem(node, depth, current_index)
        is_expanded == MapGetOr(expanded_items, current_index, tree_item.is_expanded)
        item == [tree_item EXCEPT !.is_expanded = is_expanded]
        children == get_children(node)
        pushed == [items |-> Append(acc.items, item), index |-> acc.index + 1]
    IN  IF is_expanded /\ children /= <<>>
        THEN add_nodes(pushed, children, depth + 1, expanded_items)
        ELSE pushed

\* the for loops over a node sequence in rebuild_items and add_node_recursive
add_nodes(acc, nodes, depth, expanded_items) ==
    IF nodes = <<>>
    THEN acc
    ELSE add_nodes(add_node_recursive(acc, Head(nodes), depth, expanded_items),
                   Tail(nodes), depth, expanded_items)

\* TreeView::rebuild_items: the new self.items
rebuild_items(original_nodes, expanded_items) ==
    add_nodes([items |-> <<>>, index |-> 0], original_nodes, 0, expanded_items).items

\* TreeView::new
TreeViewNew(nodes) ==
    [items |-> rebuild_items(nodes, EmptyMap),
     selected_index |-> 0,
     expanded_items |-> EmptyMap,
     original_nodes |-> nodes]

\* a move-up that wraps to the last row
move_up_Wrapping(tv) ==
    [tv EXCEPT !.selected_index =
        IF tv.selected_index > 0 THEN tv.selected_index - 1
        ELSE Max(Len(tv.items) - 1, 0)]

\* TreeView::move_up
move_up(tv) ==
    IF tv.selected_index > 0
    THEN [tv EXCEPT !.selected_index = tv.selected_index - 1]
    ELSE tv

\* a move-down without the end-of-rows guard
move_down_Unguarded(tv) == [tv EXCEPT !.selected_index = tv.selected_index + 1]

\* TreeView::move_down
move_down(tv) ==
    IF tv.selected_index + 1 < Len(tv.items)
    THEN [tv EXCEPT !.selected_index = tv.selected_index + 1]
    ELSE tv

\* a toggle that only ever expands
toggle_expand_ExpandOnly(tv) ==
    IF tv.selected_index < Len(tv.items)
    THEN LET item == tv.items[tv.selected_index + 1] IN
         IF item.has_children
         THEN LET expanded == MapInsert(tv.expanded_items, item.index, TRUE)
                  items == rebuild_items(tv.original_nodes, expanded)
              IN  [tv EXCEPT !.expanded_items = expanded,
                             !.items = items,
                             !.selected_index =
                                 Min(tv.selected_index, Max(Len(items) - 1, 0))]
         ELSE tv
    ELSE tv

\* TreeView::toggle_expand
toggle_expand(tv) ==
    IF tv.selected_index < Len(tv.items)
    THEN LET item == tv.items[tv.selected_index + 1] IN
         IF item.has_children
         THEN LET expanded == MapInsert(tv.expanded_items, item.index, ~item.is_expanded)
                  items == rebuild_items(tv.original_nodes, expanded)
              IN  [tv EXCEPT !.expanded_items = expanded,
                             !.items = items,
                             !.selected_index =
                                 Min(tv.selected_index, Max(Len(items) - 1, 0))]
         ELSE tv
    ELSE tv

\* TreeView::get_selected_node
get_selected_node(tv) ==
    IF tv.selected_index < Len(tv.items)
    THEN Some(tv.items[tv.selected_index + 1].node)
    ELSE None

\* App::init_tree_view: writes tree_view and, on a parse failure, error_msg
init_tree_view ==
    LET markdown_result == Parse(content) IN
    IF markdown_result.ok
    THEN /\ tree_view' = Some(TreeViewNew(markdown_result.nodes))
         /\ error_msg' = None
    ELSE /\ tree_view' = tree_view
         /\ error_msg' = Some("Failed to parse markdown for tree view")

----------------------------------------------------------------------------
\* Interaction engine (src/src/app.rs)

\* page-navigation stride of PageDown / PageUp
PageStride == 10

\* a dispatch that keeps the previous error
ErrorKept == error_msg' = error_msg

\* handle_event clears the error before routing; a handler that raises no
\* error leaves it cleared
ErrorCleared == error_msg' = None

\* an arm that does not call exec_query
NoEval == last_eval' = "none"

\* `_ => {}` and non-key events: nothing but the cleared error
Ignore ==
    /\ ErrorCleared
    /\ NoEval
    /\ UNCHANGED <<query, results, selected_idx, should_quit, mode, show_detail,
                   query_history, history_position, cursor_position, tree_view, pc>>

\* a panic aborts the dispatch (and the process) after the error was cleared
Panic ==
    /\ pc' = "panicked"
    /\ ErrorCleared
    /\ NoEval
    /\ UNCHANGED <<query, results, selected_idx, should_quit, mode, show_detail,
                   query_history, history_position, cursor_position, tree_view>>

\* a quit that also leaves the current mode
Quit_LeavesMode ==
    /\ should_quit' = TRUE
    /\ mode' = "Normal"
    /\ error_msg' = None
    /\ last_eval' = "none"
    /\ UNCHANGED <<query, results, selected_idx, show_detail,
                   query_history, history_position, cursor_position, tree_view, pc>>

\* (KeyCode::Char('q'), _) | (KeyCode::Esc, _) in Normal mode, (KeyCode::Char('q'), _) in TreeView mode
Quit ==
    /\ should_quit' = TRUE
    /\ ErrorCleared
    /\ NoEval
    /\ UNCHANGED <<query, results, selected_idx, mode, show_detail,
                   query_history, history_position, cursor_position, tree_view, pc>>

\* every mode-only arm going back to Normal
SetMode_AlwaysNormal(m) ==
    /\ mode' = "Normal"
    /\ error_msg' = None
    /\ last_eval' = "none"
    /\ UNCHANGED <<query, results, selected_idx, should_quit, show_detail,
                   query_history, history_position, cursor_position, tree_view, pc>>

\* arms that only assign self.mode
SetMode(m) ==
    /\ mode' = m
    /\ ErrorCleared
    /\ NoEval
    /\ UNCHANGED <<query, results, selected_idx, should_quit, show_detail,
                   query_history, history_position, cursor_position, tree_view, pc>>

\* a detail key that only switches the detail view on
ToggleDetail_OnlyOn ==
    /\ show_detail' = TRUE
    /\ error_msg' = None
    /\ last_eval' = "none"
    /\ UNCHANGED <<query, results, selected_idx, should_quit, mode,
                   query_history, history_position, cursor_position, tree_view, pc>>

\* (KeyCode::Char('d'), _)
ToggleDetail ==
    /\ show_detail' = ~show_detail
    /\ ErrorCleared
    /\ NoEval
    /\ UNCHANGED <<query, results, selected_idx, should_quit, mode,
                   query_history, history_position, cursor_position, tree_view, pc>>

\* a ':' that throws the tree away
EnterQueryMode_DropsTree ==
    /\ mode' = "Query"
    /\ cursor_position' = Len(query)
    /\ tree_view' = None
    /\ ErrorCleared
    /\ NoEval
    /\ UNCHANGED <<query, results, selected_idx, should_quit, show_detail,
                   query_history, history_position, pc>>

\* (KeyCode::Char(':'), _)
EnterQueryMode ==
    /\ mode' = "Query"
    /\ cursor_position' = Len(query)
    /\ ErrorCleared
    /\ NoEval
    /\ UNCHANGED <<query, results, selected_idx, should_quit, show_detail,
                   query_history, history_position, tree_view, pc>>

\* a 't' that builds the tree on the first visit only
EnterTreeView_KeepsTree ==
    /\ mode' = "TreeView"
    /\ IF tree_view = None
       THEN init_tree_view
       ELSE tree_view' = tree_view /\ error_msg' = None
    /\ last_eval' = "none"
    /\ UNCHANGED <<query, results, selected_idx, should_quit, show_detail,
                   query_history, history_position, cursor_position, pc>>

\* (KeyCode::Char('t'), _)
EnterTreeView ==
    /\ mode' = "TreeView"
    /\ init_tree_view
    /\ NoEval
    /\ UNCHANGED <<query, results, selected_idx, should_quit, show_detail,
                   query_history, history_position, cursor_position, pc>>

\* move-up and page-down written the other way round: clamped up, wrapping page
NavUp_Saturating(sel, n) == IF sel > 0 THEN sel - 1 ELSE 0
NavPageDown_Wrapping(sel, n) == (sel + 10) % n

\* the new selected_idx of each navigation key, for n = results.len() > 0
NavDown(sel, n) == (sel + 1) % n
NavUp(sel, n) == IF sel > 0 THEN sel - 1 ELSE n - 1
NavPageDown(sel, n) == Min(sel + PageStride, n - 1)
\* usize::saturating_sub
NavPageUp(sel, n) == IF sel >= PageStride THEN sel - PageStride ELSE 0
NavHome(sel, n) == 0
NavEnd(sel, n) == n - 1

\* a navigation arm: `if !self.results.is_empty() { self.selected_idx = ... }`
Navigate(Nav(_, _)) ==
    /\ selected_idx' = IF results /= <<>>
                       THEN Nav(selected_idx, Len(results))
                       ELSE selected_idx
    /\ ErrorCleared
    /\ NoEval
    /\ UNCHANGED <<query, results, should_quit, mode, show_detail,
                   query_history, history_position, cursor_position, tree_view, pc>>

\* a clear-query key that leaves the cursor where it was
ClearQuery_KeepsCursor ==
    /\ query' = <<>>
    /\ exec_query(<<>>)
    /\ UNCHANGED <<should_quit, mode, show_detail, query_history,
                   history_position, cursor_position, tree_view, pc>>

\* (KeyCode::Char('l'), KeyModifiers::CONTROL)
ClearQuery ==
    /\ query' = <<>>
    /\ cursor_position' = 0
    /\ exec_query(<<>>)
    /\ UNCHANGED <<should_quit, mode, show_detail, query_history,
                   history_position, tree_view, pc>>

\* what Clipboard::new() and set_text() can do
ClipboardOutcomes == {"ok", "unavailable", "write_failed"}

\* (KeyCode::Char('y'), _)
CopyResults ==
    /\ IF results /= <<>>
       THEN \E outcome \in ClipboardOutcomes :
               error_msg' =
                   CASE outcome = "ok" -> None
                     [] outcome = "write_failed" -> Some("Error: Could not copy to clipboard")
                     [] outcome = "unavailable" -> Some("Error: Could not access clipboard")
       ELSE ErrorCleared
    /\ NoEval
    /\ UNCHANGED <<query, results, selected_idx, should_quit, mode, show_detail,
                   query_history, history_position, cursor_position, tree_view, pc>>

\* App::handle_normal_mode_event
handle_normal_mode_event(e) ==
    IF e.kind = "Key"
    THEN CASE IsChar(e, "q") \/ e.code = "Esc" -> Quit
           [] IsChar(e, "d") -> ToggleDetail
           [] IsChar(e, ":") -> EnterQueryMode
           [] IsChar(e, "?") \/ e.code = "F1" -> SetMode("Help")
           [] IsChar(e, "t") -> EnterTreeView
           [] e.code = "Down" \/ IsChar(e, "j") -> Navigate(NavDown)
           [] e.code = "Up" \/ IsChar(e, "k") -> Navigate(NavUp)
           [] e.code = "PageDown" -> Navigate(NavPageDown)
           [] e.code = "PageUp" -> Navigate(NavPageUp)
           [] e.code = "Home" -> Navigate(NavHome)
           [] e.code = "End" -> Navigate(NavEnd)
           [] IsChar(e, "l") /\ e.mods = "CONTROL" -> ClearQuery
           [] IsChar(e, "y") -> CopyResults
           [] OTHER -> Ignore
    ELSE Ignore

\* an Escape that leaves the history position alone
QueryEscape_KeepsPosition ==
    /\ mode' = "Normal"
    /\ error_msg' = None
    /\ last_eval' = "none"
    /\ UNCHANGED <<query, results, selected_idx, should_quit, show_detail,
                   query_history, history_position, cursor_position, tree_view, pc>>

\* (KeyCode::Esc, _) in Query mode
QueryEscape ==
    /\ mode' = "Normal"
    /\ history_position' = None
    /\ ErrorCleared
    /\ NoEval
    /\ UNCHANGED <<query, results, selected_idx, should_quit, show_detail,
                   query_history, cursor_position, tree_view, pc>>

\* a history that takes no text it already holds anywhere
HistoryAfterEnter_Unique(q, h) ==
    IF q /= <<>> /\ (\A i \in 1..Len(h) : h[i] /= q)
    THEN Append(h, q)
    ELSE h

\* the history after Enter: push unless empty or a duplicate of the last entry
HistoryAfterEnter(q, h) ==
    IF q /= <<>> /\ (h = <<>> \/ h[Len(h)] /= q)
    THEN Append(h, q)
    ELSE h

\* an Enter that commits the query only when its evaluation succeeded
QueryEnter_CommitsOnSuccess ==
    /\ mode' = "Normal"
    /\ history_position' = None
    /\ exec_query(query)
    /\ query_history' = IF last_eval' \in {"ok", "all"}
                        THEN HistoryAfterEnter(query, query_history)
                        ELSE query_history
    /\ UNCHANGED <<query, should_quit, show_detail, cursor_position, tree_view, pc>>

\* (KeyCode::Enter, _) in Query mode
QueryEnter ==
    /\ mode' = "Normal"
    /\ query_history' = HistoryAfterEnter(query, query_history)
    /\ history_position' = None
    /\ exec_query(query)
    /\ UNCHANGED <<query, should_quit, show_detail, cursor_position, tree_view, pc>>

\* (KeyCode::Char(c), KeyModifiers::NONE | KeyModifiers::SHIFT)
QueryInsert(c) ==
    IF InsertPanics(query, cursor_position)
    THEN Panic
    ELSE /\ query' = StringInsert(query, cursor_position, c)
         /\ cursor_position' = cursor_position + 1
         /\ exec_query(StringInsert(query, cursor_position, c))
         /\ UNCHANGED <<should_quit, mode, show_detail, query_history,
                        history_position, tree_view, pc>>

\* (KeyCode::Backspace, _)
QueryBackspace ==
    IF cursor_position > 0
    THEN IF RemovePanics(query, cursor_position - 1)
         THEN Panic
         ELSE /\ query' = StringRemove(query, cursor_position - 1)
              /\ cursor_position' = cursor_position - 1
              /\ exec_query(StringRemove(query, cursor_position - 1))
              /\ UNCHANGED <<should_quit, mode, show_detail, query_history,
                             history_position, tree_view, pc>>
    ELSE Ignore

\* (KeyCode::Delete, _)
QueryDelete ==
    IF cursor_position < Len(query)
    THEN IF RemovePanics(query, cursor_position)
         THEN Panic
         ELSE /\ query' = StringRemove(query, cursor_position)
              /\ exec_query(StringRemove(query, cursor_position))
              /\ UNCHANGED <<should_quit, mode, show_detail, query_history,
                             history_position, cursor_position, tree_view, pc>>
    ELSE Ignore

\* Right without the end-of-text guard
CursorRight_Unguarded(cur, len) == cur + 1

\* the new cursor_position of each cursor key, for len = query.len()
CursorLeft(cur, len) == IF cur > 0 THEN cur - 1 ELSE cur
CursorRight(cur, len) == IF cur < len THEN cur + 1 ELSE cur
CursorHome(cur, len) == 0
CursorEnd(cur, len) == len

\* (KeyCode::Left | Right | Home | End, _)
MoveCursor(Move(_, _)) ==
    /\ cursor_position' = Move(cursor_position, Len(query))
    /\ ErrorCleared
    /\ NoEval
    /\ UNCHANGED <<query, results, selected_idx, should_quit, mode, show_detail,
                   query_history, history_position, tree_view, pc>>

\* the history position after Up, for a non-empty history h
HistoryUp(pos, h) ==
    IF pos = None THEN Some(Len(h) - 1)
    ELSE IF Unwrap(pos) > 0 THEN Some(Unwrap(pos) - 1)
    ELSE pos

\* a Down that stops at the last entry
HistoryDown_Clamped(p, h) == IF p < Len(h) - 1 THEN Some(p + 1) ELSE Some(p)

\* the history position after Down from Some(p): None past the last entry
HistoryDown(p, h) == IF p < Len(h) - 1 THEN Some(p + 1) ELSE None

\* an Up that evaluates the entry it loads
QueryHistoryUp_Evaluates ==
    IF query_history /= <<>>
    THEN LET pos == HistoryUp(history_position, query_history)
             q == IF pos /= history_position
                  THEN query_history[Unwrap(pos) + 1]
                  ELSE query
         IN  /\ history_position' = pos
             /\ query' = q
             /\ cursor_position' = Len(q)
             /\ exec_query(q)
             /\ UNCHANGED <<should_quit, mode, show_detail, query_history, tree_view, pc>>
    ELSE Ignore

\* (KeyCode::Up, _) in Query mode
QueryHistoryUp ==
    IF query_history /= <<>>
    THEN LET pos == HistoryUp(history_position, query_history)
             q == IF pos /= history_position
                  THEN query_history[Unwrap(pos) + 1]
                  ELSE query
         IN  /\ history_position' = pos
             /\ query' = q
             /\ cursor_position' = Len(q)
             /\ ErrorCleared
             /\ NoEval
             /\ UNCHANGED <<results, selected_idx, should_quit, mode, show_detail,
                            query_history, tree_view, pc>>
    ELSE Ignore

\* (KeyCode::Down, _) in Query mode
QueryHistoryDown ==
    IF IsSome(history_position)
    THEN IF query_history = <<>>
         THEN Panic
         ELSE LET pos == HistoryDown(Unwrap(history_position), query_history)
                  q == IF IsSome(pos) THEN query_history[Unwrap(pos) + 1] ELSE <<>>
              IN  /\ history_position' = pos
                  /\ query' = q
                  /\ cursor_position' = Len(q)
                  /\ ErrorCleared
                  /\ NoEval
                  /\ UNCHANGED <<results, selected_idx, should_quit, mode, show_detail,
                                 query_history, tree_view, pc>>
    ELSE Ignore

\* App::handle_query_mode_event
handle_query_mode_event(e) ==
    IF e.kind = "Key"
    THEN CASE e.code = "Esc" -> QueryEscape
           [] e.code = "Enter" -> QueryEnter
           [] e.code = "Char" /\ e.mods \in {"NONE", "SHIFT"} -> QueryInsert(e.ch)
           [] e.code = "Backspace" -> QueryBackspace
           [] e.code = "Delete" -> QueryDelete
           [] e.code = "Left" -> MoveCursor(CursorLeft)
           [] e.code = "Right" -> MoveCursor(CursorRight)
           [] e.code = "Home" -> MoveCursor(CursorHome)
           [] e.code = "End" -> MoveCursor(CursorEnd)
           [] e.code = "Up" -> QueryHistoryUp
           [] e.code = "Down" -> QueryHistoryDown
           [] OTHER -> Ignore
    ELSE Ignore

\* a Help handler that leaves on any event, key or not
handle_help_mode_event_AnyEvent(e) == SetMode("Normal")

\* App::handle_help_mode_event
handle_help_mode_event(e) ==
    IF e.kind = "Key" THEN SetMode("Normal") ELSE Ignore

\* the TreeView arms `if let Some(tree_view) = &mut self.tree_view { tree_view.op() }`
TreeOp(Op(_)) ==
    /\ tree_view' = IF IsSome(tree_view) THEN Some(Op(Unwrap(tree_view))) ELSE tree_view
    /\ ErrorCleared
    /\ NoEval
    /\ UNCHANGED <<query, results, selected_idx, should_quit, mode, show_detail,
                   query_history, history_position, cursor_position, pc>>

\* a tree mode that Escape does not leave
handle_tree_view_mode_event_NoEscape(e) ==
    IF e.kind = "Key"
    THEN CASE IsChar(e, "t") -> SetMode("Normal")
           [] IsChar(e, "q") -> Quit
           [] e.code = "Down" \/ IsChar(e, "j") -> TreeOp(move_down)
           [] e.code = "Up" \/ IsChar(e, "k") -> TreeOp(move_up)
           [] e.code = "Enter" \/ IsChar(e, " ") -> TreeOp(toggle_expand)
           [] IsChar(e, "?") \/ e.code = "F1" -> SetMode("Help")
           [] OTHER -> Ignore
    ELSE Ignore

\* App::handle_tree_view_mode_event
handle_tree_view_mode_event(e) ==
    IF e.kind = "Key"
    THEN CASE e.code = "Esc" \/ IsChar(e, "t") -> SetMode("Normal")
           [] IsChar(e, "q") -> Quit
           [] e.code = "Down" \/ IsChar(e, "j") -> TreeOp(move_down)
           [] e.code = "Up" \/ IsChar(e, "k") -> TreeOp(move_up)
           [] e.code = "Enter" \/ IsChar(e, " ") -> TreeOp(toggle_expand)
           [] IsChar(e, "?") \/ e.code = "F1" -> SetMode("Help")
           [] OTHER -> Ignore
    ELSE Ignore

\* App::handle_event
handle_event(e) ==
    /\ pc = "running"
    /\ event' = e
    /\ content' = content
    /\ CASE mode = "Normal" -> handle_normal_mode_event(e)
         [] mode = "Query" -> handle_query_mode_event(e)
         [] mode = "Help" -> handle_help_mode_event(e)
         [] mode = "TreeView" -> handle_tree_view_mode_event(e)

\* a session that is created with the detail pane open
New_DetailShown(c) ==
    /\ content = c
    /\ query = <<>>
    /\ results = <<>>
    /\ selected_idx = 0
    /\ should_quit = FALSE
    /\ error_msg = None
    /\ mode = "Normal"
    /\ show_detail = TRUE
    /\ query_history = <<>>
    /\ history_position = None
    /\ cursor_position = 0
    /\ tree_view = None
    /\ last_eval = "none"
    /\ pc = "new"
    /\ event = NoEvent
    /\ terminal_input = None
    /\ queue = <<>>
    /\ source = "idle"
    /\ frame = "none"
    /\ drawn = 0
    /\ run_result = "none"
    /\ terminal = "cooked"
    /\ read_log = <<>>
    /\ dispatch_log = <<>>

\* App::new
New(c) ==
    /\ content = c
    /\ query = <<>>
    /\ results = <<>>
    /\ selected_idx = 0
    /\ should_quit = FALSE
    /\ error_msg = None
    /\ mode = "Normal"
    /\ show_detail = FALSE
    /\ query_history = <<>>
    /\ history_position = None
    /\ cursor_position = 0
    /\ tree_view = None
    /\ last_eval = "none"
    /\ pc = "new"
    /\ event = NoEvent
    /\ terminal_input = None
    /\ queue = <<>>
    /\ source = "idle"
    /\ frame = "none"
    /\ drawn = 0
    /\ run_result = "none"
    /\ terminal = "cooked"
    /\ read_log = <<>>
    /\ dispatch_log = <<>>

\* App::run up to its loop: the initial exec_query
Start ==
    /\ pc = "new"
    /\ pc' = "running"
    /\ exec_query(query)
    /\ UNCHANGED <<content, query, should_quit, mode, show_detail, query_history,
                   history_position, cursor_position, tree_view, event>>
    /\ UNCHANGED loop_vars

\* the inputs the model leaves out to stay finite: typing beyond max_len
\* bytes and committing beyond max_history entries
WithinBounds(e, max_len, max_history) ==
    mode = "Query" /\ e.kind = "Key" =>
        /\ e.code = "Char" /\ e.mods \in {"NONE", "SHIFT"} =>
               Len(query) + Len(Utf8(e.ch)) <= max_len
        /\ e.code = "Enter" =>
               Len(HistoryAfterEnter(query, query_history)) <= max_history

\* one iteration of the loop of App::run in mode m, `while !self.should_quit`,
\* with an event of the set E in the queue
Dispatch(m, E) ==
    /\ ~should_quit
    /\ mode = m
    /\ \E e \in E : WithinBounds(e, MaxQueryLen, MaxHistory) /\ handle_event(e)
    /\ UNCHANGED loop_vars

DispatchNormal == Dispatch("Normal", NormalEvents)
DispatchQuery == Dispatch("Query", QueryEvents)
DispatchHelp == Dispatch("Help", HelpEvents)
DispatchTreeView == Dispatch("TreeView", TreeViewEvents)

\* the documents of the full interaction model
Docs == {"bad", "small"}

Init == \E c \in Docs : New(c)

Next == Start \/ DispatchNormal \/ DispatchQuery \/ DispatchHelp \/ DispatchTreeView

\* the interaction engine: the initial evaluation, then any sequence of events
Spec == Init /\ [][Next]_vars

DispatchNavigation == Dispatch("Normal", NavigationEvents)

\* documents with no result, one result, two results and more than a page of results
NavDocs == {"empty", "one", "small", "long"}

InitNav == \E c \in NavDocs : New(c)

NextNav == Start \/ DispatchNavigation

\* result navigation: the initial evaluation, then any sequence of
\* Normal-mode keys that stay in Normal mode
SpecNav == InitNav /\ [][NextNav]_vars

\* the loop iteration of Dispatch with the bounds of a slice of the machine
DispatchWithin(m, E, max_len, max_history) ==
    /\ ~should_quit
    /\ mode = m
    /\ \E e \in E : WithinBounds(e, max_len, max_history) /\ handle_event(e)
    /\ UNCHANGED loop_vars

\* bound: the history length the history slice commits up to
HistoryDepth == 3

\* the keys of the history slice: typing one letter, so that the queries
\* "q", "qq", ... differ by their length, submitting, browsing, leaving
HistoryNormalEvents == {CharEv(":", "NONE")}
HistoryQueryEvents ==
    {CharEv("q", "NONE")} \cup
    {Plain(code) : code \in {"Esc", "Enter", "Backspace", "Home", "Up", "Down"}}

DispatchHistoryNormal ==
    DispatchWithin("Normal", HistoryNormalEvents, MaxQueryLen, HistoryDepth)
DispatchHistoryQuery ==
    DispatchWithin("Query", HistoryQueryEvents, MaxQueryLen, HistoryDepth)

HistoryDocs == {"one"}

InitHistory == \E c \in HistoryDocs : New(c)

NextHistory == Start \/ DispatchHistoryNormal \/ DispatchHistoryQuery

\* query history: entering Query mode, typing, submitting and browsing
SpecHistory == InitHistory /\ [][NextHistory]_vars

\* bound: the query length in bytes the editing slice types up to
EditLen == 3

\* the keys of the editing slice: a one-byte and a two-byte character, the
\* removal keys and the cursor keys
EditNormalEvents == {CharEv(":", "NONE")}
EditQueryEvents ==
    {CharEv(ch, "NONE") : ch \in {"q", "é"}} \cup
    {CharEv("q", "SHIFT")} \cup
    {Plain(code) : code \in {"Esc", "Backspace", "Delete", "Left", "Right", "Home", "End"}}

DispatchEditNormal == DispatchWithin("Normal", EditNormalEvents, EditLen, MaxHistory)
DispatchEditQuery == DispatchWithin("Query", EditQueryEvents, EditLen, MaxHistory)

EditDocs == {"one"}

InitEdit == \E c \in EditDocs : New(c)

NextEdit == Start \/ DispatchEditNormal \/ DispatchEditQuery

\* query editing: entering Query mode, typing, removing, moving the cursor
SpecEdit == InitEdit /\ [][NextEdit]_vars

\* the keys of the tree slice: entering tree mode, moving, toggling, leaving
TreeNormalEvents == {CharEv("t", "NONE")}
TreeKeyEvents ==
    {CharEv(ch, "NONE") : ch \in {"j", "k", " "}} \cup
    {Plain(code) : code \in {"Esc", "Enter"}}

DispatchTreeNormal == DispatchWithin("Normal", TreeNormalEvents, MaxQueryLen, MaxHistory)
DispatchTreeKeys == DispatchWithin("TreeView", TreeKeyEvents, MaxQueryLen, MaxHistory)

\* a document with containers two levels deep, one without nodes and one
\* that does not parse
TreeDocs == {"nested", "empty", "bad"}

InitTree == \E c \in TreeDocs : New(c)

NextTree == Start \/ DispatchTreeNormal \/ DispatchTreeKeys

\* the tree view: entering tree mode, moving, expanding and collapsing, leaving
SpecTree == InitTree /\ [][NextTree]_vars

\* the keys of the mode slice: the keys that change the mode, Escape in every
\* mode, a key that moves the selection, a wide character to type and keys
\* that change the tree
ModesNormalEvents ==
    {CharEv(ch, "NONE") : ch \in {":", "?", "t", "j"}} \cup {Plain("Esc")}
ModesQueryEvents ==
    {CharEv("é", "NONE")} \cup {Plain(code) : code \in {"Esc", "Enter", "Left", "Delete"}}
ModesTreeEvents ==
    {CharEv(ch, "NONE") : ch \in {"?", "j", " "}} \cup {Plain("Esc")}

DispatchModesNormal == DispatchWithin("Normal", ModesNormalEvents, MaxQueryLen, MaxHistory)
DispatchModesQuery == DispatchWithin("Query", ModesQueryEvents, MaxQueryLen, MaxHistory)
DispatchModesHelp == DispatchWithin("Help", HelpEvents, MaxQueryLen, MaxHistory)
DispatchModesTree == DispatchWithin("TreeView", ModesTreeEvents, MaxQueryLen, MaxHistory)

\* a document with a tree to expand and one that does not parse
ModesDocs == {"nested", "bad"}

InitModes == \E c \in ModesDocs : New(c)

NextModes ==
    \/ Start
    \/ DispatchModesNormal
    \/ DispatchModesQuery
    \/ DispatchModesHelp
    \/ DispatchModesTree

\* the four modes and the keys that lead from one to another
SpecModes == InitModes /\ [][NextModes]_vars

\* the keys of the selector slice: entering Query mode, typing the heading
\* selector, removing, submitting, leaving
SelectorNormalEvents == {CharEv(":", "NONE")}
SelectorQueryEvents ==
    {CharEv(ch, "NONE") : ch \in {".", "h"}} \cup
    {Plain(code) : code \in {"Esc", "Enter", "Backspace"}}

DispatchSelectorNormal ==
    DispatchWithin("Normal", SelectorNormalEvents, MaxQueryLen, MaxHistory)
DispatchSelectorQuery ==
    DispatchWithin("Query", SelectorQueryEvents, MaxQueryLen, MaxHistory)

SelectorDocs == {"headings"}

InitSelector == \E c \in SelectorDocs : New(c)

NextSelector == Start \/ DispatchSelectorNormal \/ DispatchSelectorQuery

\* the heading selector on the document of the end-to-end tests
SpecSelector == InitSelector /\ [][NextSelector]_vars

\* the variables of App, with the bookkeeping of the dispatch
app_vars == <<content, query, results, selected_idx, should_quit, error_msg, mode,
              show_detail, query_history, history_position, cursor_position,
              tree_view, last_eval, event>>

\* bound: the events the model lets wait in the channel
MaxQueue == 2

\* bound: the events the model lets the thread read during one run
MaxRead == 3

\* the events of the main-loop slice: a navigation key, the quit key, a resize
LoopEvents == {CharEv("j", "NONE"), CharEv("q", "NONE"), ResizeEv}

\* the `events` local of run() is alive: the Receiver has not been dropped
ReceiverAlive == pc = "running"

\* run() up to its loop when setup_terminal fails: `?` returns the error
RunSetupFails ==
    /\ pc = "new"
    /\ pc' = "returned"
    /\ run_result' = "setup_error"
    /\ terminal' \in {"cooked", "raw"}
    /\ UNCHANGED app_vars
    /\ UNCHANGED <<terminal_input, queue, source, frame, drawn>>
    /\ UNCHANGED log_vars

\* run() up to its loop: setup_terminal, EventHandler::new spawning the
\* event-source thread, the initial exec_query
RunSetup ==
    /\ pc = "new"
    /\ pc' = "running"
    /\ terminal' = "raw"
    /\ source' = "polling"
    /\ frame' = "draw"
    /\ exec_query(query)
    /\ UNCHANGED <<content, query, should_quit, mode, show_detail, query_history,
                   history_position, cursor_position, tree_view, event>>
    /\ UNCHANGED <<terminal_input, queue, drawn, run_result>>
    /\ UNCHANGED log_vars

\* a loop that polls again without drawing
LoopDraw_Skipped ==
    /\ pc = "running"
    /\ frame = "draw"
    /\ ~should_quit
    /\ frame' = "poll"
    /\ UNCHANGED app_vars
    /\ UNCHANGED <<pc, terminal_input, queue, source, drawn, run_result, terminal>>
    /\ UNCHANGED log_vars

\* `while !self.should_quit { self.draw(&mut terminal)?;`
LoopDraw ==
    /\ pc = "running"
    /\ frame = "draw"
    /\ ~should_quit
    /\ \/ /\ frame' = "poll"
          /\ drawn' = drawn + 1
          /\ UNCHANGED <<pc, run_result>>
       \/ /\ pc' = "returned"
          /\ run_result' = "draw_error"
          /\ frame' = "none"
          /\ drawn' = drawn
    /\ UNCHANGED app_vars
    /\ UNCHANGED <<terminal_input, queue, source, terminal>>
    /\ UNCHANGED log_vars

\* a poll that reports a dropped sender as 'no event'
PollDisconnected_NoEvent ==
    /\ frame' = "draw"
    /\ drawn' = 0
    /\ UNCHANGED app_vars
    /\ UNCHANGED <<pc, terminal_input, queue, source, run_result, terminal>>
    /\ UNCHANGED log_vars

\* try_recv gives Err(Disconnected): next() is Err and `?` returns it from run()
PollDisconnected ==
    /\ pc' = "returned"
    /\ run_result' = "channel_error"
    /\ frame' = "none"
    /\ drawn' = 0
    /\ UNCHANGED app_vars
    /\ UNCHANGED <<terminal_input, queue, source, terminal>>
    /\ UNCHANGED log_vars

\* a poll that dispatches the first event of the channel and leaves it there
LoopPoll_PeeksOnly ==
    /\ pc = "running"
    /\ frame = "poll"
    /\ IF queue /= <<>>
       THEN /\ handle_event(Head(queue))
            /\ queue' = queue
            /\ dispatch_log' = Append(dispatch_log, Head(queue))
            /\ frame' = "draw"
            /\ drawn' = 0
            /\ UNCHANGED <<terminal_input, source, run_result, terminal, read_log>>
       ELSE IF source = "polling"
            THEN /\ frame' = "draw"
                 /\ drawn' = 0
                 /\ UNCHANGED app_vars
                 /\ UNCHANGED <<pc, terminal_input, queue, source, run_result, terminal>>
                 /\ UNCHANGED log_vars
            ELSE PollDisconnected

\* `if let Some(event) = events.next()? { self.handle_event(event)?; }`:
\* try_recv takes the first event of the channel if there is one, reports an
\* empty channel as None while the sender lives and as an error when the
\* sender is gone
LoopPoll ==
    /\ pc = "running"
    /\ frame = "poll"
    /\ IF queue /= <<>>
       THEN /\ handle_event(Head(queue))
            /\ queue' = Tail(queue)
            /\ dispatch_log' = Append(dispatch_log, Head(queue))
            /\ frame' = "draw"
            /\ drawn' = 0
            /\ UNCHANGED <<terminal_input, source, run_result, terminal, read_log>>
       ELSE IF source = "polling"
            THEN /\ frame' = "draw"
                 /\ drawn' = 0
                 /\ UNCHANGED app_vars
                 /\ UNCHANGED <<pc, terminal_input, queue, source, run_result, terminal>>
                 /\ UNCHANGED log_vars
            ELSE PollDisconnected

\* a loop that leaves only once the channel has been emptied
LoopExit_AfterDraining ==
    /\ pc = "running"
    /\ frame = "draw"
    /\ should_quit
    /\ queue = <<>>
    /\ pc' = "returned"
    /\ frame' = "none"
    /\ \/ terminal' = "cooked" /\ run_result' = "ok"
       \/ terminal' = "raw" /\ run_result' = "restore_error"
    /\ UNCHANGED app_vars
    /\ UNCHANGED <<terminal_input, queue, source, drawn>>
    /\ UNCHANGED log_vars

\* the loop condition fails: restore_terminal()?; Ok(())
LoopExit ==
    /\ pc = "running"
    /\ frame = "draw"
    /\ should_quit
    /\ pc' = "returned"
    /\ frame' = "none"
    /\ \/ terminal' = "cooked" /\ run_result' = "ok"
       \/ terminal' = "raw" /\ run_result' = "restore_error"
    /\ UNCHANGED app_vars
    /\ UNCHANGED <<terminal_input, queue, source, drawn>>
    /\ UNCHANGED log_vars

\* the user or the terminal produces an input event; the model lets one wait
\* at a time and, while the channel is in use, only if the channel has room
\* and the record of the events read is not full
InputArrives ==
    /\ terminal_input = None
    /\ ReceiverAlive => Len(queue) < MaxQueue /\ Len(read_log) < MaxRead
    /\ \E e \in LoopEvents : terminal_input' = Some(e)
    /\ UNCHANGED app_vars
    /\ UNCHANGED <<pc, queue, source, frame, drawn, run_result, terminal>>
    /\ UNCHANGED log_vars

\* a thread that ends as soon as the receiver is gone, event or no event
SourceForward_StopsAtOnce ==
    /\ source = "polling"
    /\ IF ReceiverAlive
       THEN /\ terminal_input /= None
            /\ queue' = Append(queue, Unwrap(terminal_input))
            /\ read_log' = Append(read_log, Unwrap(terminal_input))
            /\ terminal_input' = None
            /\ source' = source
       ELSE /\ source' = "terminated"
            /\ UNCHANGED <<terminal_input, queue, read_log>>
    /\ UNCHANGED app_vars
    /\ UNCHANGED <<pc, frame, drawn, run_result, terminal, dispatch_log>>

\* the thread of EventHandler::new with an event to read: poll is Ok(true),
\* read is Ok(event), and send either queues the event or, with the
\* receiver dropped, fails and breaks the loop
SourceForward ==
    /\ source = "polling"
    /\ terminal_input /= None
    /\ terminal_input' = None
    /\ IF ReceiverAlive
       THEN /\ queue' = Append(queue, Unwrap(terminal_input))
            /\ read_log' = Append(read_log, Unwrap(terminal_input))
            /\ source' = source
       ELSE /\ queue' = queue
            /\ read_log' = read_log
            /\ source' = "terminated"
    /\ UNCHANGED app_vars
    /\ UNCHANGED <<pc, frame, drawn, run_result, terminal, dispatch_log>>

\* poll is Ok(true) but read is Err: `if let Ok(event)` skips the send
SourceReadFails ==
    /\ source = "polling"
    /\ terminal_input /= None
    /\ terminal_input' = None
    /\ UNCHANGED app_vars
    /\ UNCHANGED <<pc, queue, source, frame, drawn, run_result, terminal>>
    /\ UNCHANGED log_vars

\* poll is Err: `event::poll(timeout).unwrap()` panics and the thread dies,
\* dropping the Sender
SourcePollFails ==
    /\ source = "polling"
    /\ source' = "panicked"
    /\ UNCHANGED app_vars
    /\ UNCHANGED <<pc, terminal_input, queue, frame, drawn, run_result, terminal>>
    /\ UNCHANGED log_vars

LoopDocs == {"small"}

InitLoop == \E c \in LoopDocs : New(c)

\* the steps of the main thread
MainStep == RunSetupFails \/ RunSetup \/ LoopDraw \/ LoopPoll \/ LoopExit

NextLoop ==
    \/ RunSetupFails
    \/ RunSetup
    \/ LoopDraw
    \/ LoopPoll
    \/ LoopExit
    \/ InputArrives
    \/ SourceForward
    \/ SourceReadFails
    \/ SourcePollFails

\* the main loop and the event-source thread; both threads keep running
\* when they can, input arrives when the user produces it
SpecLoop ==
    /\ InitLoop
    /\ [][NextLoop]_vars
    /\ WF_vars(MainStep)
    /\ WF_vars(SourceForward)

----------------------------------------------------------------------------
\* Properties

\* a step taken by handle_event: any non-stuttering step out of a running state;
\* event' is then the event that was dispatched
Dispatched == pc = "running"

IsKey(e) == e.kind = "Key"

\* the transition table of the mode state machine
TransitionTable(m, e) ==
    IF ~IsKey(e) THEN m
    ELSE CASE m = "Normal" /\ IsChar(e, ":") -> "Query"
           [] m = "Normal" /\ (IsChar(e, "?") \/ e.code = "F1") -> "Help"
           [] m = "Normal" /\ IsChar(e, "t") -> "TreeView"
           [] m = "Query" /\ e.code \in {"Esc", "Enter"} -> "Normal"
           [] m = "Help" -> "Normal"
           [] m = "TreeView" /\ (e.code = "Esc" \/ IsChar(e, "t")) -> "Normal"
           [] m = "TreeView" /\ (IsChar(e, "?") \/ e.code = "F1") -> "Help"
           [] OTHER -> m

\* C1: the mode starts as Normal, and every dispatched event changes it exactly
\* as the transition table says; ':' in Normal mode also puts the cursor at the
\* end of the query text.
C1_ModeTransitions ==
    /\ mode = "Normal"
    /\ [][Dispatched =>
            /\ mode' = TransitionTable(mode, event')
            /\ (mode = "Normal" /\ IsChar(event', ":") =>
                    cursor_position' = Len(query'))]_vars

\* ':' pressed in Normal mode with a non-empty query, after a visit to tree mode
C1_Witness ==
    /\ mode = "Query"
    /\ IsChar(event, ":")
    /\ query /= <<>>
    /\ cursor_position = Len(query)
    /\ IsSome(tree_view)

\* the keys that set the quit flag
QuitKey(m, e) ==
    /\ IsKey(e)
    /\ \/ m = "Normal" /\ (IsChar(e, "q") \/ e.code = "Esc")
       \/ m = "TreeView" /\ IsChar(e, "q")

\* C2: the quit flag changes only from unset to set and only on a quit key;
\* a quit key sets it and leaves the mode alone; 'q' typed in Query mode goes
\* into the query instead.
C2_QuitFlag ==
    [][/\ (should_quit' /= should_quit =>
              Dispatched /\ should_quit' /\ QuitKey(mode, event'))
       /\ (Dispatched /\ QuitKey(mode, event') => should_quit' /\ mode' = mode)
       /\ (Dispatched /\ mode \in {"Query", "Help"} => should_quit' = should_quit)
       /\ (Dispatched /\ mode = "Query" /\ IsChar(event', "q")
              /\ event'.mods \in {"NONE", "SHIFT"} /\ pc' = "running" =>
              query' = StringInsert(query, cursor_position, "q"))]_vars

\* 'q' in TreeView mode set the flag, after a 'q' had been typed into the query
C2_Witness ==
    /\ should_quit
    /\ mode = "TreeView"
    /\ IsChar(event, "q")
    /\ query = Utf8("q")

\* an operation of the dispatch that can fail: a re-evaluation that failed, the
\* tree build on an unparsable document, a copy to the clipboard
FailedOperation ==
    \/ last_eval' \in {"query_error", "parse_error"}
    \/ mode = "Normal" /\ IsChar(event', "t") /\ ~Parse(content).ok
    \/ mode = "Normal" /\ IsChar(event', "y") /\ results /= <<>>

\* C3: after a dispatch the error is present only if an operation of that same
\* dispatch failed; otherwise it is None, whatever it was before.
C3_ErrorCleared ==
    [][Dispatched =>
          /\ (IsSome(error_msg') => FailedOperation)
          /\ (last_eval' \in {"query_error", "parse_error"} => IsSome(error_msg'))]_vars

\* on the unparsable document the initial evaluation raises an error; a later
\* resize event has cleared it
C3_Witness ==
    /\ ~Parse(content).ok
    /\ pc = "running"
    /\ event = ResizeEv
    /\ error_msg = None

\* the keys of each mode's table
NormalTable(e) ==
    \/ e.code \in {"Esc", "F1", "Down", "Up", "PageDown", "PageUp", "Home", "End"}
    \/ e.code = "Char" /\ e.ch \in {"q", "d", ":", "?", "t", "j", "k", "y"}
    \/ IsChar(e, "l") /\ e.mods = "CONTROL"
QueryTable(e) ==
    \/ e.code \in {"Esc", "Enter", "Backspace", "Delete", "Left", "Right", "Home",
                   "End", "Up", "Down"}
    \/ e.code = "Char" /\ e.mods \in {"NONE", "SHIFT"}
TreeViewTable(e) ==
    \/ e.code \in {"Esc", "Down", "Up", "Enter", "F1"}
    \/ e.code = "Char" /\ e.ch \in {"t", "q", "j", "k", " ", "?"}

\* a non-key event, or a key that is not in the active mode's table
Unmatched(m, e) ==
    \/ ~IsKey(e)
    \/ m = "Normal" /\ ~NormalTable(e)
    \/ m = "Query" /\ ~QueryTable(e)
    \/ m = "TreeView" /\ ~TreeViewTable(e)

\* C4: an unmatched key or a non-key event changes nothing and raises no error;
\* it only clears the previous error.
C4_UnmatchedIsNoOp ==
    [][Dispatched /\ Unmatched(mode, event') =>
          /\ UNCHANGED <<mode, query, cursor_position, query_history,
                         history_position, results, selected_idx, show_detail,
                         should_quit, tree_view, content, pc>>
          /\ error_msg' = None]_vars

\* Ctrl+'q' in Query mode with a non-empty query, results and a tree present
C4_Witness ==
    /\ mode = "Query"
    /\ event = CharEv("q", "CONTROL")
    /\ query /= <<>>
    /\ results /= <<>>
    /\ IsSome(tree_view)

\* C5: selected_idx is an index of results, and 0 when results is empty.
C5_SelectedInRange ==
    IF results = <<>>
    THEN selected_idx = 0
    ELSE 0 <= selected_idx /\ selected_idx < Len(results)

\* a successful re-evaluation in Query mode left fewer results than the
\* document has nodes, with the last of them selected
C5_Witness ==
    /\ last_eval = "ok"
    /\ results /= <<>>
    /\ Len(results) < Len(Parse(content).nodes)
    /\ selected_idx = Len(results) - 1

\* C6: the cursor stays inside the query text.
C6_CursorInRange == 0 <= cursor_position /\ cursor_position <= Len(query)

\* Right pressed with the cursor already at the end of a non-empty query
C6_Witness ==
    /\ mode = "Query"
    /\ event = Plain("Right")
    /\ query /= <<>>
    /\ cursor_position = Len(query)

\* C7: history_position is None outside Query mode, and a valid index of a
\* non-empty history when Some.
C7_HistoryPosition ==
    /\ mode /= "Query" => history_position = None
    /\ IsSome(history_position) =>
           /\ query_history /= <<>>
           /\ 0 <= Unwrap(history_position)
           /\ Unwrap(history_position) < Len(query_history)

\* Up pressed in Query mode selected the last history entry
C7_Witness ==
    /\ mode = "Query"
    /\ event = Plain("Up")
    /\ query_history /= <<>>
    /\ history_position = Some(Len(query_history) - 1)

RECURSIVE MoveDownTimes(_, _, _)
\* selected_idx after k move-downs
MoveDownTimes(k, sel, n) ==
    IF k = 0 THEN sel ELSE MoveDownTimes(k - 1, NavDown(sel, n), n)

IsMoveDown(e) == IsKey(e) /\ (e.code = "Down" \/ IsChar(e, "j"))
IsMoveUp(e) == IsKey(e) /\ (e.code = "Up" \/ IsChar(e, "k"))

\* C8: with n results, move-down selects (selected + 1) mod n and move-up
\* (selected - 1) mod n; n move-downs, and move-down then move-up, lead back to
\* every starting index.
C8_Wraparound ==
    /\ [](results /= <<>> =>
            \A s \in 0..(Len(results) - 1) :
                /\ MoveDownTimes(Len(results), s, Len(results)) = s
                /\ NavUp(NavDown(s, Len(results)), Len(results)) = s)
    /\ [][Dispatched /\ mode = "Normal" /\ results /= <<>> =>
            /\ (IsMoveDown(event') =>
                    selected_idx' = (selected_idx + 1) % Len(results))
            /\ (IsMoveUp(event') =>
                    selected_idx' = (selected_idx + Len(results) - 1) % Len(results))]_vars

\* move-up from the first of more than ten results wrapped to the last
C8_Witness ==
    /\ mode = "Normal"
    /\ event = Plain("Up")
    /\ Len(results) = LongLen
    /\ selected_idx = LongLen - 1

\* C9: PageDown and PageUp move by 10 and stop at the ends; Home and End jump
\* to the first and last result.
C9_PageNavigation ==
    [][Dispatched /\ mode = "Normal" /\ results /= <<>> /\ IsKey(event') =>
          /\ (event'.code = "PageDown" =>
                 selected_idx' = Min(selected_idx + 10, Len(results) - 1))
          /\ (event'.code = "PageUp" =>
                 selected_idx' = Max(selected_idx - 10, 0))
          /\ (event'.code = "Home" => selected_idx' = 0)
          /\ (event'.code = "End" => selected_idx' = Len(results) - 1)]_vars

\* PageDown stopped at the last of more than ten results
C9_Witness ==
    /\ mode = "Normal"
    /\ event = Plain("PageDown")
    /\ Len(results) = LongLen
    /\ selected_idx = LongLen - 1

\* the events that re-evaluate while the query is not empty
EvalTrigger(e) ==
    /\ IsKey(e)
    /\ \/ e.code \in {"Enter", "Backspace", "Delete"}
       \/ e.code = "Char" /\ e.mods \in {"NONE", "SHIFT"}

\* C10: a re-evaluation in which the query engine fails leaves results and
\* selected_idx as they were and sets the error; it happens only on a character
\* insert, Backspace, Delete or Enter in Query mode.
C10_QueryErrorKeepsResults ==
    [][last_eval' = "query_error" /\ (Dispatched \/ pc = "new") =>
          /\ results' = results
          /\ selected_idx' = selected_idx
          /\ IsSome(error_msg')
          /\ mode = "Query"
          /\ EvalTrigger(event')]_vars

\* Enter ran a failing query while the second of two results was selected
C10_Witness ==
    /\ last_eval = "query_error"
    /\ event = Plain("Enter")
    /\ mode = "Normal"
    /\ Len(results) = 2
    /\ selected_idx = 1
    /\ IsSome(error_msg)

\* C11: a re-evaluation with an empty query over a document that parses makes
\* results the document's top-level nodes, in document order, and error_msg
\* None, whatever results held before.
C11_EmptyQueryShowsAll ==
    [][last_eval' /= "none" /\ query' = <<>> /\ Parse(content).ok =>
          /\ last_eval' = "all"
          /\ results' = Parse(content).nodes
          /\ \A i \in 1..Len(results') : results'[i] = Parse(content).nodes[i]
          /\ error_msg' = None]_vars

\* Backspace emptied a query that had been submitted before, whatever its
\* evaluations had left in results; the full document is back
C11_Witness ==
    /\ last_eval = "all"
    /\ event = Plain("Backspace")
    /\ query = <<>>
    /\ query_history /= <<>>
    /\ Len(results) = 2
    /\ results = Parse(content).nodes
    /\ error_msg = None

\* C12: a re-evaluation over a document that does not parse sets the error,
\* empties results and puts selected_idx at 0, and never reaches the query
\* engine, whatever the query is; a query-engine failure keeps the results.
C12_ParseFailure ==
    [][last_eval' /= "none" /\ ~Parse(content).ok =>
          /\ last_eval' = "parse_error"
          /\ IsSome(error_msg')
          /\ error_msg' /= Some("Query error")
          /\ results' = <<>>
          /\ selected_idx' = 0]_vars

\* an edit of the query over the unparsable document, in Query mode
C12_Witness ==
    /\ last_eval = "parse_error"
    /\ ~Parse(content).ok
    /\ mode = "Query"
    /\ query /= <<>>
    /\ IsSome(error_msg)
    /\ results = <<>>
    /\ selected_idx = 0

\* C13: Enter in Query mode appends the query to the history exactly when the
\* query is not empty and the history is empty or ends with another text;
\* the history holds no empty entry and no two equal neighbours, and a text
\* equal to an older entry that is not the last one is appended again.
C13_HistoryCommit ==
    /\ [](\A i \in 1..Len(query_history) :
             /\ query_history[i] /= <<>>
             /\ (i > 1 => query_history[i] /= query_history[i - 1]))
    /\ [][Dispatched /\ mode = "Query" /\ IsKey(event') /\ event'.code = "Enter" =>
            query_history' =
                IF /\ Len(query) > 0
                   /\ (Len(query_history) = 0
                          \/ query_history[Len(query_history)] /= query)
                THEN query_history \o <<query>>
                ELSE query_history]_vars

\* Enter committed a text a second time, after another text
C13_Witness ==
    /\ event = Plain("Enter")
    /\ Len(query_history) = 3
    /\ query_history[3] = query
    /\ query_history[1] = query
    /\ query_history[2] /= query

\* Enter pressed in Query mode
IsQueryEnter(m, e) == m = "Query" /\ IsKey(e) /\ e.code = "Enter"

\* the query is one Enter would commit: not empty, not the last history entry
Committable(q, h) == Len(q) > 0 /\ (Len(h) = 0 \/ h[Len(h)] /= q)

\* C14 as stated: an Enter in Query mode whose re-evaluation ends with an error
\* (query engine or parser) leaves the history unchanged.
C14_OnlyOnSuccess ==
    [][Dispatched /\ IsQueryEnter(mode, event')
          /\ last_eval' \in {"query_error", "parse_error"} =>
          query_history' = query_history]_vars

\* C14, amended: only Enter in Query mode changes the history, by appending
\* the query; it appends a non-empty query that differs from the last entry
\* also when the re-evaluation that follows ends with an error.
C14_HistoryOnlyOnEnter ==
    [][/\ (query_history' /= query_history =>
              /\ Dispatched
              /\ IsQueryEnter(mode, event')
              /\ query_history' = query_history \o <<query>>)
       /\ (Dispatched /\ IsQueryEnter(mode, event') /\ Committable(query, query_history)
              /\ last_eval' \in {"query_error", "parse_error"} =>
              query_history' = query_history \o <<query>>)]_vars

\* Enter committed a query that the query engine then rejected
C14_Witness ==
    /\ event = Plain("Enter")
    /\ last_eval = "query_error"
    /\ IsSome(error_msg)
    /\ query /= <<>>
    /\ query_history = <<query>>

\* the events that run exec_query: a character insert, a Backspace or Delete
\* with a character to remove, Enter, all in Query mode, and Ctrl+l in Normal mode
ReevalTrigger(m, e, q, cur) ==
    /\ IsKey(e)
    /\ \/ /\ m = "Query"
          /\ \/ e.code = "Enter"
             \/ e.code = "Char" /\ e.mods \in {"NONE", "SHIFT"}
             \/ e.code = "Backspace" /\ cur > 0
             \/ e.code = "Delete" /\ cur < Len(q)
       \/ m = "Normal" /\ IsChar(e, "l") /\ e.mods = "CONTROL"

\* C16: exec_query runs, and results change, only at startup and on the
\* triggers above; history Up and Down change the query without evaluating
\* it; no navigation key, Help key or TreeView key changes results.
C16_ReevalOnlyOnTriggers ==
    [][/\ (last_eval' /= "none" =>
              \/ pc = "new"
              \/ Dispatched /\ ReevalTrigger(mode, event', query, cursor_position))
       /\ (results' /= results => last_eval' /= "none")
       /\ (Dispatched /\ mode = "Query" /\ IsKey(event')
              /\ event'.code \in {"Up", "Down"} =>
              last_eval' = "none" /\ results' = results)
       /\ (Dispatched /\ mode \in {"Help", "TreeView"} =>
              last_eval' = "none" /\ results' = results)
       /\ (Dispatched /\ mode = "Normal" /\ (IsMoveDown(event') \/ IsMoveUp(event')) =>
              last_eval' = "none" /\ results' = results)]_vars

\* Up loaded a history entry into the query and nothing was evaluated: the
\* empty results of an earlier evaluation are still there
C16_Witness ==
    /\ mode = "Query"
    /\ event = Plain("Up")
    /\ IsSome(history_position)
    /\ query = query_history[Unwrap(history_position) + 1]
    /\ last_eval = "none"
    /\ Parse(content).ok
    /\ results = <<>>

\* C15: Up with no history position selects the last entry, Up at position
\* i > 0 selects i - 1, Up at position 0 keeps position and query; Down below
\* the last entry selects the next one, Down at the last entry resets the
\* position and empties the query, Down with no position changes nothing. A
\* selected entry becomes the query, and each of the five moves from a history
\* position or into one puts the cursor at the end of the query. So after
\* committing two queries, Up, Up, Down, Down shows the first, the second,
\* then the empty query.
C15_HistoryBrowsing ==
    [][Dispatched /\ mode = "Query" /\ IsKey(event') /\ query_history /= <<>> =>
          LET n == Len(query_history)
              i == IF history_position = <<>> THEN -1 ELSE history_position[1]
          IN  /\ (event'.code = "Up" /\ i = -1 =>
                     /\ history_position' = <<n - 1>>
                     /\ query' = query_history[n]
                     /\ cursor_position' = Len(query'))
              /\ (event'.code = "Up" /\ i > 0 =>
                     /\ history_position' = <<i - 1>>
                     /\ query' = query_history[i]
                     /\ cursor_position' = Len(query'))
              /\ (event'.code = "Up" /\ i = 0 =>
                     /\ history_position' = history_position
                     /\ query' = query
                     /\ cursor_position' = Len(query'))
              /\ (event'.code = "Down" /\ i >= 0 /\ i < n - 1 =>
                     /\ history_position' = <<i + 1>>
                     /\ query' = query_history[i + 2]
                     /\ cursor_position' = Len(query'))
              /\ (event'.code = "Down" /\ i = n - 1 =>
                     /\ history_position' = <<>>
                     /\ query' = <<>>
                     /\ cursor_position' = 0)
              /\ (event'.code = "Down" /\ i = -1 =>
                     UNCHANGED <<history_position, query, cursor_position>>)
              /\ (event'.code \in {"Up", "Down"} => query_history' = query_history)]_vars

\* with two committed queries, Down moved from the first entry to the second:
\* Up, Up, Down after entering Query mode
C15_Witness ==
    /\ mode = "Query"
    /\ event = Plain("Down")
    /\ Len(query_history) = 2
    /\ history_position = <<1>>
    /\ query = query_history[2]
    /\ query /= query_history[1]
    /\ cursor_position = Len(query)

\* a printable character key of Query mode: no modifier, or Shift
IsInsertKey(e) == IsKey(e) /\ e.code = "Char" /\ e.mods \in {"NONE", "SHIFT"}

\* C17: in Query mode every printable character key puts the character into
\* the query at the cursor, with the text before and after the cursor as it
\* was, moves the cursor on by one and runs a re-evaluation.
C17_InsertAtCursor ==
    [][Dispatched /\ mode = "Query" /\ IsInsertKey(event') =>
          /\ SubSeq(query', 1, cursor_position) = SubSeq(query, 1, cursor_position)
          /\ SubSeq(query', cursor_position + 1, cursor_position + Len(Utf8(event'.ch)))
                 = Utf8(event'.ch)
          /\ SubSeq(query', cursor_position + Len(Utf8(event'.ch)) + 1, Len(query'))
                 = SubSeq(query, cursor_position + 1, Len(query))
          /\ cursor_position' = cursor_position + 1
          /\ last_eval' /= "none"]_vars

\* s without the w bytes that follow its first i bytes
WithoutBytes(s, i, w) == SubSeq(s, 1, i) \o SubSeq(s, i + w + 1, Len(s))

\* the query lost one character, of one to four bytes, after its first i bytes
RemovedCharAt(i) ==
    \E w \in 1..4 : i + w <= Len(query) /\ query' = WithoutBytes(query, i, w)

\* C18: Backspace with the cursor past the start removes the character before
\* the cursor and moves the cursor back by one; Delete with the cursor before
\* the end removes the character at the cursor and leaves the cursor; at the
\* start and at the end they change neither query, cursor nor results, and
\* nothing is evaluated.
C18_RemoveAtCursor ==
    [][Dispatched /\ mode = "Query" /\ IsKey(event') =>
          /\ (event'.code = "Backspace" /\ cursor_position > 0 =>
                 /\ RemovedCharAt(cursor_position - 1)
                 /\ cursor_position' = cursor_position - 1)
          /\ (event'.code = "Delete" /\ cursor_position < Len(query) =>
                 /\ RemovedCharAt(cursor_position)
                 /\ cursor_position' = cursor_position)
          /\ (\/ event'.code = "Backspace" /\ cursor_position = 0
              \/ event'.code = "Delete" /\ cursor_position >= Len(query) =>
                 /\ UNCHANGED <<query, cursor_position, results>>
                 /\ last_eval' = "none")]_vars

\* C19: Ctrl+l in Normal mode empties the query, puts the cursor at 0 and
\* re-evaluates with the empty query, so that results is the whole document
\* when it parses; the mode stays Normal and the history is untouched. 'l'
\* without Control does none of this.
C19_ClearQuery ==
    [][Dispatched /\ mode = "Normal" /\ IsChar(event', "l") =>
          IF event'.mods = "CONTROL"
          THEN /\ query' = <<>>
               /\ cursor_position' = 0
               /\ last_eval' \in {"all", "parse_error"}
               /\ (Parse(content).ok =>
                      /\ last_eval' = "all"
                      /\ results' = Parse(content).nodes
                      /\ error_msg' = None)
               /\ mode' = "Normal"
               /\ query_history' = query_history
          ELSE /\ UNCHANGED <<query, cursor_position, results, selected_idx, mode,
                              query_history>>
               /\ last_eval' = "none"]_vars

\* Ctrl+l pressed after a query had been submitted: the query is empty and
\* the whole document is shown
C19_Witness ==
    /\ mode = "Normal"
    /\ event = CharEv("l", "CONTROL")
    /\ query = <<>>
    /\ cursor_position = 0
    /\ query_history /= <<>>
    /\ last_eval = "all"
    /\ results = Parse(content).nodes
    /\ results /= <<>>

\* C20: 'd' flips show_detail and changes nothing else, so a second press
\* restores it; 'y' never changes results or selected_idx, sets no error when
\* results is empty, and otherwise sets the error or not as the clipboard
\* fails or works.
C20_DetailAndCopy ==
    [][Dispatched /\ mode = "Normal" /\ IsKey(event') =>
          /\ (IsChar(event', "d") =>
                 /\ show_detail' /= show_detail
                 /\ (~show_detail') = show_detail
                 /\ UNCHANGED <<query, results, selected_idx, should_quit, mode,
                                query_history, history_position, cursor_position,
                                tree_view, content>>)
          /\ (IsChar(event', "y") =>
                 /\ UNCHANGED <<results, selected_idx, query, should_quit, mode,
                                show_detail, query_history, history_position,
                                cursor_position, tree_view, content>>
                 /\ (results = <<>> => error_msg' = <<>>)
                 /\ error_msg' \in {<<>>,
                                     <<"Error: Could not copy to clipboard">>,
                                     <<"Error: Could not access clipboard">>})]_vars

\* 'y' pressed with the detail view switched on and the second result
\* selected; the clipboard was not available
C20_Witness ==
    /\ mode = "Normal"
    /\ IsChar(event, "y")
    /\ show_detail
    /\ Len(results) >= 2
    /\ selected_idx = 1
    /\ error_msg = <<"Error: Could not access clipboard">>

\* the rows of the tree, for a state where the tree is present
Rows == tree_view[1].items

\* C21: when the tree has rows, selected_index is an index of them and
\* get_selected_node is the node of the selected row; get_selected_node is
\* None exactly when there are no rows.
C21_TreeSelection ==
    tree_view /= <<>> =>
        LET sel == tree_view[1].selected_index IN
        /\ (Len(Rows) > 0 =>
               /\ 0 <= sel
               /\ sel < Len(Rows)
               /\ get_selected_node(tree_view[1]) = <<Rows[sel + 1].node>>)
        /\ (get_selected_node(tree_view[1]) = <<>> <=> Len(Rows) = 0)

\* move-down pressed on the last row of a tree with expanded rows
C21_Witness ==
    /\ mode = "TreeView"
    /\ IsChar(event, "j")
    /\ tree_view /= <<>>
    /\ Len(Rows) > Len(Parse(content).nodes)
    /\ tree_view[1].selected_index = Len(Rows) - 1

\* the first row after row i that is not below it, or Len(rows) + 1
BlockEnd(rows, i) ==
    LET later == {j \in (i + 1)..Len(rows) : rows[j].depth <= rows[i].depth}
    IN  IF later = {} THEN Len(rows) + 1
        ELSE CHOOSE j \in later : \A k \in later : j <= k

\* the nodes of the rows with the positions in idx, in row order
NodesAt(rows, idx) ==
    [k \in 1..Cardinality(idx) |->
        rows[CHOOSE j \in idx : Cardinality({x \in idx : x < j}) = k - 1].node]

\* the nodes shown directly below row i: the rows one level deeper, up to
\* the next row that is not below row i
ShownChildren(rows, i) ==
    NodesAt(rows, {j \in (i + 1)..(BlockEnd(rows, i) - 1) :
                      rows[j].depth = rows[i].depth + 1})

\* C22: the rows are the pre-order walk of the document's nodes restricted by
\* the expansion set: row i has identity i; the rows at depth 0 are the
\* top-level nodes in order; below a row come its children, in order and one
\* level deeper, exactly when the row is expanded and has children, and
\* nothing comes below any other row; is_expanded is the stored value for the
\* row's identity, false when there is none.
C22_PreOrderRows ==
    tree_view /= <<>> =>
        LET tv == tree_view[1]
            stored(k) == IF k \in DOMAIN tv.expanded_items
                         THEN tv.expanded_items[k] ELSE FALSE
            kids(n) == IF n.kind \in ContainerKinds THEN n.values ELSE <<>>
        IN  /\ \A i \in 1..Len(Rows) :
                   /\ Rows[i].index = i - 1
                   /\ Rows[i].depth >= 0
                   /\ Rows[i].is_expanded = stored(i - 1)
                   /\ (i = 1 => Rows[i].depth = 0)
                   /\ (i > 1 => Rows[i].depth <= Rows[i - 1].depth + 1)
                   /\ ShownChildren(Rows, i) =
                          IF Rows[i].is_expanded /\ Len(kids(Rows[i].node)) > 0
                          THEN kids(Rows[i].node)
                          ELSE <<>>
                   /\ (~(Rows[i].is_expanded /\ Len(kids(Rows[i].node)) > 0) =>
                          BlockEnd(Rows, i) = i + 1)
            /\ NodesAt(Rows, {j \in 1..Len(Rows) : Rows[j].depth = 0})
                   = tv.original_nodes
            /\ tv.original_nodes = Parse(content).nodes

\* a container and a container inside it are both expanded, and another
\* container is collapsed
C22_Witness ==
    /\ tree_view /= <<>>
    /\ \E i \in 1..Len(Rows) :
           /\ i + 1 <= Len(Rows)
           /\ Rows[i].is_expanded /\ Rows[i].depth = 0
           /\ Rows[i + 1].is_expanded /\ Rows[i + 1].depth = 1
           /\ Len(Rows[i + 1].node.values) > 0
    /\ \E i \in 1..Len(Rows) :
           ~Rows[i].is_expanded /\ Len(Rows[i].node.values) > 0

\* the keys of TreeView mode that call toggle_expand
IsToggleKey(e) == IsKey(e) /\ (e.code = "Enter" \/ IsChar(e, " "))

\* a toggle key is dispatched to a tree whose selected row is collapsed and
\* has children
ExpandStep ==
    /\ Dispatched
    /\ mode = "TreeView"
    /\ IsToggleKey(event')
    /\ tree_view /= <<>>
    /\ tree_view[1].selected_index < Len(Rows)
    /\ ~Rows[tree_view[1].selected_index + 1].is_expanded
    /\ Len(Rows[tree_view[1].selected_index + 1].node.values) > 0

\* no expansion is stored for an identity after identity p
NoneExpandedAfter(tv, p) ==
    \A k \in DOMAIN tv.expanded_items : k > p => ~tv.expanded_items[k]

\* C23 as stated: in every reachable tree, toggle_expand on a collapsed row
\* with children makes the rows strictly more, by the number of rows that
\* then stand below that row.
C23_ExpandGrows ==
    [][ExpandStep =>
          LET p == tree_view[1].selected_index + 1
              rows == tree_view'[1].items
          IN  /\ Len(rows) > Len(Rows)
              /\ Len(rows) - Len(Rows) = BlockEnd(rows, p) - p - 1]_vars

\* C23, amended: toggle_expand on a collapsed row with children adds one row
\* per child when no expansion is stored for a later identity; in every
\* reachable tree a second toggle_expand straight after the first restores
\* the rows, so it takes away as many rows as the first one added.
C23_ExpandThenCollapse ==
    /\ [][ExpandStep /\ NoneExpandedAfter(tree_view[1], tree_view[1].selected_index) =>
            LET p == tree_view[1].selected_index + 1
                rows == tree_view'[1].items
            IN  /\ Len(rows) = Len(Rows) + Len(Rows[p].node.values)
                /\ Len(rows) > Len(Rows)
                /\ BlockEnd(rows, p) = p + Len(Rows[p].node.values) + 1]_vars
    /\ [](tree_view /= <<>> =>
            LET tv == tree_view[1]
                once == toggle_expand(tv)
                twice == toggle_expand(once)
            IN  /\ twice.items = tv.items
                /\ twice.selected_index = tv.selected_index
                /\ Len(once.items) - Len(tv.items) = Len(once.items) - Len(twice.items))

\* a row was expanded while an earlier row was expanded and no later one:
\* its children stand below it
C23_Witness ==
    /\ mode = "TreeView"
    /\ IsToggleKey(event)
    /\ tree_view /= <<>>
    /\ LET p == tree_view[1].selected_index + 1 IN
       /\ p > 1
       /\ p <= Len(Rows)
       /\ Rows[p].is_expanded
       /\ Len(Rows[p].node.values) = 2
       /\ BlockEnd(Rows, p) = p + 3
       /\ NoneExpandedAfter(tree_view[1], p - 1)
       /\ \E k \in DOMAIN tree_view[1].expanded_items :
              k < p - 1 /\ tree_view[1].expanded_items[k]

\* C24: toggle_expand with no rows, or on a selected row without children,
\* changes nothing of the tree: rows, expansion set and selected_index.
C24_ToggleOnLeaf ==
    [][/\ Dispatched
       /\ mode = "TreeView"
       /\ IsToggleKey(event')
       /\ tree_view /= <<>>
       /\ \/ Len(Rows) = 0
          \/ /\ tree_view[1].selected_index < Len(Rows)
             /\ Len(Rows[tree_view[1].selected_index + 1].node.values) = 0
       => /\ tree_view' = tree_view
          /\ tree_view'[1].items = Rows
          /\ tree_view'[1].expanded_items = tree_view[1].expanded_items
          /\ tree_view'[1].selected_index = tree_view[1].selected_index]_vars

\* a toggle key pressed on a row without children, below an expanded row
C24_Witness ==
    /\ mode = "TreeView"
    /\ IsToggleKey(event)
    /\ tree_view /= <<>>
    /\ tree_view[1].selected_index < Len(Rows)
    /\ Len(Rows[tree_view[1].selected_index + 1].node.values) = 0
    /\ Rows[tree_view[1].selected_index + 1].depth = 1

\* the keys of TreeView mode that call move_down and move_up
IsTreeDown(e) == IsKey(e) /\ (e.code = "Down" \/ IsChar(e, "j"))
IsTreeUp(e) == IsKey(e) /\ (e.code = "Up" \/ IsChar(e, "k"))

\* C25: in the tree, move_down adds 1 to selected_index when selected_index + 1
\* is below the number of rows, move_up takes 1 away when selected_index is
\* above 0, and otherwise they change nothing; neither wraps, neither changes
\* the rows or the expansion set.
C25_TreeMoves ==
    [][Dispatched /\ mode = "TreeView" /\ tree_view /= <<>>
          /\ (IsTreeDown(event') \/ IsTreeUp(event')) =>
          LET sel == tree_view[1].selected_index IN
          /\ tree_view' /= <<>>
          /\ tree_view'[1].items = Rows
          /\ tree_view'[1].expanded_items = tree_view[1].expanded_items
          /\ tree_view'[1].original_nodes = tree_view[1].original_nodes
          /\ (IsTreeDown(event') =>
                 tree_view'[1].selected_index =
                     IF sel + 1 < Len(Rows) THEN sel + 1 ELSE sel)
          /\ (IsTreeUp(event') =>
                 tree_view'[1].selected_index = IF sel > 0 THEN sel - 1 ELSE sel)
          /\ (Len(Rows) = 0 => tree_view' = tree_view)]_vars

\* move-up pressed on the first row of a tree with an expanded row: the
\* first row is still selected
C25_Witness ==
    /\ mode = "TreeView"
    /\ IsChar(event, "k")
    /\ tree_view /= <<>>
    /\ Len(Rows) > Len(Parse(content).nodes)
    /\ tree_view[1].selected_index = 0

\* C27: toggle_expand on the row at position p leaves the rows before p as
\* they were and keeps the node, depth and identity of row p; only the
\* is_expanded of row p and the rows after p may change.
C27_TogglePrefix ==
    [][Dispatched /\ mode = "TreeView" /\ IsToggleKey(event') /\ tree_view /= <<>>
          /\ tree_view[1].selected_index < Len(Rows) =>
          LET p == tree_view[1].selected_index + 1
              rows == tree_view'[1].items
          IN  /\ Len(rows) >= p
              /\ \A i \in 1..(p - 1) : rows[i] = Rows[i]
              /\ rows[p].node = Rows[p].node
              /\ rows[p].depth = Rows[p].depth
              /\ rows[p].index = Rows[p].index]_vars

\* a row below an expanded row, itself with children, was expanded
C27_Witness ==
    /\ mode = "TreeView"
    /\ IsToggleKey(event)
    /\ tree_view /= <<>>
    /\ tree_view[1].selected_index < Len(Rows)
    /\ Rows[tree_view[1].selected_index + 1].depth = 1
    /\ Rows[tree_view[1].selected_index + 1].is_expanded
    /\ Len(Rows[tree_view[1].selected_index + 1].node.values) > 0

\* 't' is dispatched in Normal mode
EnterTreeStep == Dispatched /\ mode = "Normal" /\ IsChar(event', "t")

\* the tree is as TreeView::new leaves it: nothing expanded, one collapsed
\* row at depth 0 per top-level node, the first row selected
FreshTree(tv, nodes) ==
    /\ DOMAIN tv.expanded_items = {}
    /\ tv.selected_index = 0
    /\ Len(tv.items) = Len(nodes)
    /\ \A i \in 1..Len(nodes) :
           /\ tv.items[i].node = nodes[i]
           /\ tv.items[i].depth = 0
           /\ tv.items[i].index = i - 1
           /\ ~tv.items[i].is_expanded

\* C26 as stated: after every 't' in Normal mode the tree is present and
\* freshly built.
C26_AlwaysFreshTree ==
    [][EnterTreeStep =>
          /\ tree_view' /= <<>>
          /\ FreshTree(tree_view'[1], Parse(content).nodes)]_vars

\* C26, amended: every 't' in Normal mode enters TreeView mode; when the
\* document parses the tree is then present and freshly built, whatever was
\* expanded or selected in an earlier visit; when it does not parse the tree
\* stays as it was, absent, and the error is set.
C26_FreshTreeWhenParsed ==
    [][EnterTreeStep =>
          /\ mode' = "TreeView"
          /\ IF Parse(content).ok
             THEN /\ tree_view' /= <<>>
                  /\ FreshTree(tree_view'[1], Parse(content).nodes)
                  /\ error_msg' = <<>>
             ELSE /\ tree_view' = tree_view
                  /\ tree_view' = <<>>
                  /\ error_msg' /= <<>>]_vars

\* 't' pressed on the nested document: four collapsed rows, the first selected
C26_Witness ==
    /\ mode = "TreeView"
    /\ IsChar(event, "t")
    /\ tree_view /= <<>>
    /\ Len(Rows) = 4
    /\ FreshTree(tree_view[1], Parse(content).nodes)

\* a step of the main thread inside its loop, taken from the poll
PollStep == pc = "running" /\ frame = "poll" /\ (frame' /= frame \/ pc' /= pc)

\* C28: each iteration of the loop draws once and then polls once; a poll
\* takes at most one event, the first of the channel, and dispatches it; on
\* an empty channel it reports no event, nothing is dispatched and no state
\* of the session changes; the poll never waits: it can always be taken.
C28_OneEventPerFrame ==
    /\ [][PollStep => drawn = 1]_vars
    /\ [][Len(queue') < Len(queue) =>
            /\ PollStep
            /\ queue' = Tail(queue)
            /\ event' = Head(queue)]_vars
    /\ [][app_vars' /= app_vars => pc = "new" \/ (PollStep /\ queue /= <<>>)]_vars
    /\ [][PollStep /\ queue = <<>> /\ source = "polling" =>
            /\ frame' = "draw"
            /\ pc' = pc
            /\ UNCHANGED app_vars
            /\ UNCHANGED <<queue, run_result, terminal>>]_vars
    /\ [](pc = "running" /\ frame = "poll" => ENABLED LoopPoll)

\* one event was dispatched and another one is still waiting in the channel
\* for a later iteration
C28_Witness ==
    /\ pc = "running"
    /\ frame = "draw"
    /\ drawn = 0
    /\ IsChar(event, "j")
    /\ selected_idx = 1
    /\ Len(queue) >= 1

\* C29 as stated: once the receiver has been dropped, the event-source
\* thread eventually terminates.
C29_EventuallyTerminates ==
    (pc = "returned" /\ source = "polling") ~> (source /= "polling")

\* C29, amended: the thread queues every event it reads while the receiver
\* is alive; its loop breaks only on a send that fails, that is on the first
\* event read after the receiver was dropped; the only other way it ends is
\* the panic of a failed poll.
C29_TerminatesOnFailedSend ==
    /\ [][source = "polling" /\ source' = "terminated" =>
            /\ ~ReceiverAlive
            /\ terminal_input /= <<>>
            /\ queue' = queue]_vars
    /\ [][source = "polling" /\ source' /= "polling" =>
            source' \in {"terminated", "panicked"}]_vars
    /\ [][Len(queue') > Len(queue) =>
            /\ source = "polling" /\ source' = "polling"
            /\ pc = "running"
            /\ terminal_input /= <<>>
            /\ queue' = queue \o terminal_input]_vars
    /\ [][source /= "polling" => source' = source \/ pc = "new"]_vars

\* run() has returned on the quit key and the thread has ended on an event
\* read afterwards
C29_Witness ==
    /\ pc = "returned"
    /\ run_result = "ok"
    /\ source = "terminated"
    /\ terminal_input = <<>>

\* C30: with the sender gone and the channel empty, the poll is an error and
\* run() returns it without any dispatch; while events remain in the channel
\* they are dispatched first, and nothing is dispatched after the return.
C30_DisconnectIsFatal ==
    /\ [][PollStep /\ queue = <<>> /\ source /= "polling" =>
            /\ pc' = "returned"
            /\ run_result' = "channel_error"
            /\ UNCHANGED app_vars]_vars
    /\ [][run_result' = "channel_error" /\ run_result /= "channel_error" =>
            PollStep /\ queue = <<>> /\ source /= "polling"]_vars
    /\ [][PollStep /\ queue /= <<>> =>
            /\ event' = Head(queue)
            /\ queue' = Tail(queue)
            /\ pc' /= "returned"
            /\ run_result' = "none"]_vars
    /\ [][pc = "returned" => UNCHANGED app_vars /\ pc' = pc /\ run_result' = run_result]_vars

\* the thread has died and run() has returned the channel error, after an
\* event had been dispatched
C30_Witness ==
    /\ pc = "returned"
    /\ run_result = "channel_error"
    /\ source = "panicked"
    /\ queue = <<>>
    /\ IsChar(event, "j")
    /\ selected_idx = 1

\* a step of the main thread inside its loop
LoopStep == pc = "running" /\ (frame' /= frame \/ pc' /= pc)

\* C31 as stated: once a dispatch has set the quit flag the loop ends and
\* run() returns successfully.
C31_QuitReturnsOk ==
    [][should_quit /\ pc = "running" /\ pc' = "returned" => run_result' = "ok"]_vars

\* C31, amended: the quit flag is set only by a dispatch, and the loop tests
\* it before the next draw; once it is set nothing more is dispatched, the
\* events waiting in the channel stay there, the next step of the loop
\* leaves it through restore_terminal, and run() returns Ok exactly when the
\* restore succeeded; the loop does end.
C31_QuitEndsLoop ==
    /\ [][~should_quit /\ should_quit' =>
            /\ PollStep /\ queue /= <<>>
            /\ pc' = "running" /\ frame' = "draw"]_vars
    /\ [][should_quit => UNCHANGED app_vars]_vars
    /\ [][should_quit /\ queue /= <<>> =>
            Len(queue') >= Len(queue) /\ Head(queue') = Head(queue)]_vars
    /\ [][should_quit /\ LoopStep =>
            /\ pc' = "returned"
            /\ run_result' \in {"ok", "restore_error"}
            /\ run_result' = "ok" <=> terminal' = "cooked"]_vars
    /\ (should_quit ~> pc = "returned")

\* the quit key was dispatched and run() has returned Ok with an event still
\* waiting in the channel
C31_Witness ==
    /\ pc = "returned"
    /\ run_result = "ok"
    /\ should_quit
    /\ IsChar(event, "q")
    /\ queue /= <<>>

\* C32: a session that has not been started is in Normal mode with an empty
\* query, cursor 0, selected 0, no error, no results, empty history, no
\* browsing position, the detail pane closed, the quit flag unset and no
\* tree; for a document without nodes the initial evaluation, before any
\* event, leaves the results empty, selected 0, no error and Normal mode.
C32_InitialSession ==
    /\ pc = "new" =>
            /\ mode = "Normal"
            /\ query = <<>>
            /\ cursor_position = 0
            /\ selected_idx = 0
            /\ error_msg = <<>>
            /\ results = <<>>
            /\ query_history = <<>>
            /\ history_position = <<>>
            /\ show_detail = FALSE
            /\ should_quit = FALSE
            /\ tree_view = <<>>
    /\ content = "empty" /\ pc = "running" /\ event = NoEvent =>
            /\ last_eval = "all"
            /\ results = <<>>
            /\ selected_idx = 0
            /\ error_msg = <<>>
            /\ mode = "Normal"
            /\ query = <<>>

\* the initial evaluation has run on the document without nodes and no event
\* has been dispatched yet
C32_Witness ==
    /\ content = "empty"
    /\ pc = "running"
    /\ event = NoEvent
    /\ last_eval = "all"
    /\ results = <<>>

\* the nodes of kind Heading in a sequence of nodes, in order
HeadingsOf(nodes) == SelectSeq(nodes, LAMBDA n : n.kind = "Heading")

\* an evaluation of the heading selector on the document with two headings,
\* a paragraph and a two-item list
HeadingEvaluation ==
    /\ content = "headings"
    /\ query' = HeadingQuery
    /\ last_eval' /= "none"

ToggleStep ==
    /\ Dispatched
    /\ mode = "TreeView"
    /\ IsToggleKey(event')
    /\ tree_view /= <<>>
    /\ tree_view[1].selected_index < Len(Rows)
    /\ Len(Rows[tree_view[1].selected_index + 1].node.values) > 0

\* C34: toggle_expand on a row with children leaves selected_index at its
\* value; the row at that position is afterwards the same node with the
\* opposite is_expanded, stored under the row's identity in the expansion
\* set; the rebuilt rows reach at least that position, so the clamp to the
\* last row does not move the selection.
C34_ToggleKeepsSelection ==
    [][ToggleStep =>
          LET p == tree_view[1].selected_index
              tv == tree_view'[1]
          IN  /\ tv.selected_index = p
              /\ p <= Len(tv.items) - 1
              /\ tv.items[p + 1].node = Rows[p + 1].node
              /\ tv.items[p + 1].is_expanded = ~Rows[p + 1].is_expanded
              /\ Rows[p + 1].index \in DOMAIN tv.expanded_items
              /\ tv.expanded_items[Rows[p + 1].index] = tv.items[p + 1].is_expanded]_vars

\* a row other than the first and the last was collapsed, which took rows
\* away below it, and it is still the selected row
C34_Witness ==
    /\ mode = "TreeView"
    /\ IsToggleKey(event)
    /\ tree_view /= <<>>
    /\ tree_view[1].selected_index = 1
    /\ Len(Rows) = 4
    /\ Len(Rows[2].node.values) > 0
    /\ ~Rows[2].is_expanded
    /\ 1 \in DOMAIN tree_view[1].expanded_items

\* C35: in Query mode, whenever history_position is Some(i) the query is the
\* history entry i.
C35_BrowsingShowsEntry ==
    mode = "Query" /\ history_position /= <<>> =>
        /\ history_position[1] < Len(query_history)
        /\ query = query_history[history_position[1] + 1]

\* C36: for every sequence of keys, characters wider than one byte included,
\* the cursor lies on a character boundary of the query and no dispatch
\* aborts.
C36_CursorOnCharBoundary ==
    /\ cursor_position <= Len(query)
    /\ IsCharBoundary(query, cursor_position)
    /\ pc /= "panicked"

\* C37: whenever run() has returned after setting the terminal up, by the
\* quit flag, by a draw failure or by the disconnection of the event channel,
\* the terminal has been restored.
C37_TerminalRestored ==
    pc = "returned" /\ run_result \in {"ok", "draw_error", "channel_error"} =>
        terminal = "cooked"

\* C38: while run() is in its loop, the events the thread has read are the
\* events dispatched so far followed by the events waiting in the channel,
\* in the order they were read: nothing is lost, doubled or reordered; an
\* event is dispatched only as the first of the channel; and the n-th event
\* read is dispatched in the end unless run() returns or the quit flag is
\* set before.
C38_ReadEventsDispatchedInOrder ==
    /\ [](pc = "running" => read_log = dispatch_log \o queue)
    /\ [][dispatch_log' /= dispatch_log =>
            /\ PollStep
            /\ ~should_quit
            /\ event' = Head(queue)
            /\ dispatch_log' = Append(dispatch_log, event')]_vars
    /\ [][read_log' /= read_log =>
            /\ terminal_input /= <<>>
            /\ read_log' = read_log \o terminal_input
            /\ queue' = queue \o terminal_input]_vars
    /\ \A n \in 0..MaxRead :
            (Len(read_log) > n) ~>
                (Len(dispatch_log) > n \/ pc /= "running" \/ should_quit)

\* two different events have been dispatched in the order they were read
\* while a third one, read during those frames, waits in the channel
C38_Witness ==
    /\ pc = "running"
    /\ ~should_quit
    /\ Len(dispatch_log) = 2
    /\ dispatch_log[1] /= dispatch_log[2]
    /\ Len(queue) = 1
    /\ read_log = dispatch_log \o queue

\* the loop of run() dispatches Escape and the dispatch completes
EscapeDispatch ==
    /\ ~should_quit
    /\ handle_event(Plain("Esc"))
    /\ pc' = "running"
    /\ UNCHANGED loop_vars

\* C39: in every state of a running session with the quit flag unset,
\* Escape can be dispatched and the dispatch completes; dispatched in Query,
\* Help or TreeView mode it leads to Normal mode with the flag still unset,
\* and dispatched in Normal mode it sets the flag: two Escapes at most set
\* the quit flag from every mode.
C39_EscapeTwiceQuits ==
    /\ [](pc = "running" /\ ~should_quit => ENABLED EscapeDispatch)
    /\ [][Dispatched /\ event' = Plain("Esc") =>
            /\ ~should_quit
            /\ pc' = "running"
            /\ IF mode = "Normal"
               THEN should_quit' /\ mode' = "Normal"
               ELSE mode' = "Normal" /\ ~should_quit']_vars

\* Escape set the quit flag in Normal mode, after visits to Query mode, where
\* a wide character was typed, and to tree mode
C39_Witness ==
    /\ should_quit
    /\ event = Plain("Esc")
    /\ mode = "Normal"
    /\ query /= <<>>
    /\ tree_view /= <<>>

\* C40: a dispatch in TreeView mode leaves query, cursor, history, results
\* and selected as they are; a dispatch in Normal, Query or Help mode leaves
\* the tree as it is, rows, expansion set and selected_index, unless it is
\* 't' in Normal mode; no step changes content.
C40_TreeAndQueryIndependent ==
    /\ [][Dispatched /\ mode = "TreeView" =>
            UNCHANGED <<query, cursor_position, query_history, history_position,
                        results, selected_idx>>]_vars
    /\ [][Dispatched /\ mode \in {"Normal", "Query", "Help"}
            /\ ~(mode = "Normal" /\ IsChar(event', "t")) =>
            /\ tree_view' = tree_view
            /\ tree_view /= <<>> =>
                   /\ tree_view'[1].items = Rows
                   /\ tree_view'[1].expanded_items = tree_view[1].expanded_items
                   /\ tree_view'[1].selected_index = tree_view[1].selected_index]_vars
    /\ [][content' = content]_vars

\* a character was typed into the query while a tree with an expanded row
\* and a moved selection was kept
C40_Witness ==
    /\ mode = "Query"
    /\ IsKey(event) /\ event.code = "Char" /\ event.ch = "é"
    /\ query /= <<>>
    /\ tree_view /= <<>>
    /\ Len(Rows) > 4
    /\ tree_view[1].selected_index > 0

====
